---- MODULE Spec2Model ----
(***************************************************************************)
(* Control-plane synchronisation and per-peer connection engine.           *)
(*                                                                         *)
(* Three state machines share this module, under five specifications:      *)
(*   LoginSpec    - the Management service: concurrent Logins,             *)
(*                  registration and peer deletion on one account;         *)
(*   SyncSpec     - the Management service: the Sync stream, the update    *)
(*                  fan-out (per-peer mailboxes), registration, peer       *)
(*                  deletion and group changes;                            *)
(*   EngineSpec   - the Client Engine's updateNetworkMap;                  *)
(*   ConnSpec     - the two peer.Conn objects of one peer pair (Open,      *)
(*                  Close, cleanup, the signal handlers, ICE callbacks);   *)
(*   ElectionSpec - the same two Conns, for every pair of public keys, up  *)
(*                  to the election of the controlling side.               *)
(* Variables that belong to another machine are held constant by a         *)
(* specification.                                                          *)
(***************************************************************************)
EXTENDS Integers, Sequences, FiniteSets, Bags, TLC

(***************************************************************************)
(* Bounds of the model.                                                    *)
(***************************************************************************)
MaxPeers == 2
SubnetHosts == 4
MaxMailbox == 2
MaxStreams == 2
MaxSyncStreams == 1
MaxLogins == 2
MaxCalls == 4
MaxMutations == 1
MaxMapSerial == 3
KeyAlphabet == 2
MaxKeyLen == 2

PeerKeys == 1..MaxPeers
Streams == 1..MaxStreams
\* the streams opened where no stream is displaced
SyncStreams == 1..MaxSyncStreams

(***************************************************************************)
(* Management service: state                                               *)
(***************************************************************************)
VARIABLES
    accPeers,       \* Account.Peers: peer key -> Peer record, or NoPeer
    setupKeys,      \* Account.SetupKeys: key -> SetupKey record
    serial,         \* Account.Network.Serial
    groups,         \* Account.Groups: the members of the one modelled group, or NoGroup
    peerChannels,   \* PeersUpdateManager.peerChannels: peer key -> channel, 0 when absent
    chans,          \* the update channels ever created: buffer and closed flag
    streams,        \* one record per Sync call: position in GRPCServer.Sync, the first
                    \* message sent on the stream, the error returned
    logins,         \* the Login calls in progress: a bag of records (position in
                    \* GRPCServer.Login, request, response)
    deletes,        \* number of DeletePeer calls so far
    lastDelete,     \* the last DeletePeer call: whether it returned an error; history:
                    \* whether an update it sent could not be enqueued
    registrations,  \* history: number of peers ever registered with each setup key
    loginCalls      \* number of Login calls so far

mgmtVars == <<accPeers, setupKeys, serial, groups, peerChannels, chans,
              streams, logins, deletes, lastDelete, registrations, loginCalls>>

(***************************************************************************)
(* Client Engine: state                                                    *)
(***************************************************************************)
VARIABLES
    networkSerial,  \* Engine.networkSerial: the last-applied serial
    peerConns,      \* Engine.peerConns: the keys of the remote peers with a PeerConn
    inMap,          \* history: the map of the last updateNetworkMap call
    before,         \* history: networkSerial and peerConns when that call started
    committed       \* history: the serials set as last-applied, in order

engineVars == <<networkSerial, peerConns, inMap, before, committed>>

(***************************************************************************)
(* peer.Conn: state of the two Conn objects of one peer pair, one at each  *)
(* end                                                                     *)
(***************************************************************************)
VARIABLES
    localKey,       \* ConnConfig.LocalKey of each end; ConnConfig.Key is the other end's
    pc,             \* position of the Open call of each Conn
    status,         \* Conn.status
    agent,          \* Conn.agent: "nil" or "open"
    proxy,          \* Conn.proxy: "nil" or the type of the proxy
    active,         \* the data paths that were started and not closed
    notify,         \* Conn.notifyDisconnected is set
    ctxDone,        \* Conn.ctx is cancelled
    role,           \* how the agent connected: "none", "Dial" or "Accept"
    openErr,        \* the error Open returns
    closeRes,       \* the result of the last Close call
    closeAsked,     \* history: Close was called while Open was connecting
    statusRecorder, \* Conn.statusRecorder: the State it holds for the remote peer
    accepted,       \* history: the last OnRemoteOffer or OnRemoteAnswer call and its result
    offers,         \* the ends to which an offer is on its way through Signal
    answers         \* the ends to which an answer is on its way through Signal

connVars == <<localKey, pc, status, agent, proxy, active, notify, ctxDone, role,
              openErr, closeRes, closeAsked, statusRecorder, accepted, offers, answers>>

(***************************************************************************)
(* The choice of the data path, taken on its own: the candidate pair ICE   *)
(* selected and the proxy startProxy creates for it                        *)
(***************************************************************************)
VARIABLES
    selected,       \* the pair agent.GetSelectedCandidatePair returns
    decided         \* the type of the proxy created for it, "unset" before

pathVars == <<selected, decided>>

(***************************************************************************)
(* The lookup of a setup key by its spelling, taken on its own             *)
(***************************************************************************)
VARIABLES
    storedKey,      \* the id of the setup key as the account stores it
    presentedKey,   \* the setup key a peer presents
    lookup          \* the lookups made for it: who looked it up, and the outcome

keyVars == <<storedKey, presentedKey, lookup>>

(***************************************************************************)
(* The goroutine of Client.Sync, which keeps the Sync stream of the client *)
(***************************************************************************)
VARIABLES
    syncPc,         \* "op": running operation; "stream": in receiveEvents;
                    \* "backoff": Retry waits for its timer; "stopped": Retry returned
    interval,       \* backOff.currentInterval, in milliseconds
    wait,           \* the duration the last NextBackOff returned
    elapsed,        \* the time since backOff was reset
    retries,        \* the calls of NextBackOff so far
    syncCancelled   \* c.ctx is cancelled

retryVars == <<syncPc, interval, wait, elapsed, retries, syncCancelled>>

(***************************************************************************)
(* The DNS server of the client and the calls of UpdateDNSServer           *)
(***************************************************************************)
VARIABLES
    updateSerial,       \* s.updateSerial
    previousConfigHash, \* s.previousConfigHash
    currentConfig,      \* the configuration applyConfiguration applied last
    dnsCtxDone,         \* s.ctx is done
    dnsCalls            \* the calls of UpdateDNSServer: where each one is

dnsVars == <<updateSerial, previousConfigHash, currentConfig, dnsCtxDone, dnsCalls>>

(***************************************************************************)
(* One group of an account, the store and the updates sent for the group   *)
(***************************************************************************)
VARIABLES
    groupPeers,     \* group.Peers of the account the manager holds
    accountSerial,  \* account.Network.Serial of that account
    savedAccount,   \* what Store.SaveAccount saved last: the serial and the group
    sentSerials,    \* the serials of the NetworkMaps updateAccountPeers has sent
    groupCalls      \* the calls of GroupAddPeer and GroupDeletePeer so far

groupVars == <<groupPeers, accountSerial, savedAccount, sentSerials, groupCalls>>

\* the components that are modelled on their own
soloVars == <<keyVars, retryVars, dnsVars, groupVars>>

\* what a step of one of these components leaves alone
notKeyVars == <<mgmtVars, engineVars, connVars, pathVars, retryVars, dnsVars, groupVars>>
notRetryVars == <<mgmtVars, engineVars, connVars, pathVars, keyVars, dnsVars, groupVars>>
notDnsVars == <<mgmtVars, engineVars, connVars, pathVars, keyVars, retryVars, groupVars>>
notGroupVars == <<mgmtVars, engineVars, connVars, pathVars, keyVars, retryVars, dnsVars>>

clientVars == <<engineVars, connVars, pathVars, soloVars>>

vars == <<mgmtVars, clientVars>>

NoPeer == [ip |-> -1, connected |-> FALSE, present |-> FALSE]
NilIP == -1
NoGroup == {0}
NoSerial == -1

SetupKeyOneOff == "one-off"
SetupKeyReusable == "reusable"

\* the setup keys of the account (newAccountWithId) and the keys a client may present
SetupKeyIds == {"default-key", "one-off-key"}
PresentedKeys == SetupKeyIds \cup {"", "unknown-key"}

Registered == {p \in PeerKeys : accPeers[p].present}

(***************************************************************************)
(* Management service: pure helpers                                        *)
(***************************************************************************)

IsValidThoughRevoked(sk) ==
    /\ ~sk.expired
    /\ (sk.type # SetupKeyOneOff \/ sk.usedTimes < 1)

\* SetupKey.IsValid
IsValid(sk) ==
    /\ ~sk.revoked
    /\ ~sk.expired
    /\ (sk.type # SetupKeyOneOff \/ sk.usedTimes < 1)

\* SetupKey.IncrementUsage
IncrementUsage(sk) == [sk EXCEPT !.usedTimes = @ + 1]

UseSetupKeyForgotten(key) == setupKeys

\* AddPeer: the incremented setup key is stored in the account
UseSetupKey(key) == [setupKeys EXCEPT ![key] = IncrementUsage(@)]

\* Network.IncSerial
IncSerial(s) == s + 1

TakenIpsNone == {}

\* the IPs of the account's peers, as collected by AddPeer
TakenIps == {accPeers[p].ip : p \in Registered}

\* AllocatePeerIP: the smallest unused host address of the subnet, nil when none is left
AllocatePeerIP(taken) ==
    IF \E ip \in 1..SubnetHosts : ip \notin taken
    THEN CHOOSE ip \in 1..SubnetHosts :
            /\ ip \notin taken
            /\ \A other \in 1..SubnetHosts : other \notin taken => ip <= other
    ELSE NilIP

GetPeersForAPeerAll(peerKey) == Registered

\* AccountManager.GetPeersForAPeer: all the peers of the account except the peer itself
GetPeersForAPeer(peerKey) == {p \in Registered : p # peerKey}

\* AccountManager.GetNetworkMap
GetNetworkMap(peerKey) ==
    [serial |-> serial, peers |-> GetPeersForAPeer(peerKey)]

\* toSyncResponse
toSyncResponse(networkMap) ==
    [serial |-> networkMap.serial,
     peers  |-> networkMap.peers,
     empty  |-> Cardinality(networkMap.peers) = 0]

\* the error GRPCServer.registerPeer returns for an error of AddPeer
registerPeerError(kind) ==
    IF kind = "PreconditionFailed" THEN "FailedPrecondition" ELSE "Internal"

(***************************************************************************)
(* Update fan-out (PeersUpdateManager)                                     *)
(***************************************************************************)

\* UpdateMessage: the update as it travels through a channel; seq is history, the
\* number of the message among those the channel accepted
UpdateMessage(update, n) == [Update |-> update, seq |-> n]

\* non-blocking enqueue into one channel: dropped when the buffer is full or the channel closed
Enqueue(ch, update) ==
    IF ~ch.closed /\ Len(ch.buf) < MaxMailbox
    THEN [ch EXCEPT !.buf = Append(@, UpdateMessage(update, ch.enq + 1)), !.enq = @ + 1]
    ELSE ch

ReceiveLast(buf) == buf[Len(buf)]

\* the receive of Sync from its channel (update, open := <-updates): the oldest message
Receive(buf) == Head(buf)

\* a SendUpdate that waits until the channel of the peer has room
SendUpdateWaits(cs, peerKey) ==
    IF peerChannels[peerKey] = 0 THEN TRUE
    ELSE IF cs[peerChannels[peerKey]].closed THEN TRUE
    ELSE Len(cs[peerChannels[peerKey]].buf) < MaxMailbox

\* PeersUpdateManager.SendUpdate returns to its caller: at once, whatever the state of
\* the channel of the peer
SendUpdateReturns(cs, peerKey) == TRUE

\* PeersUpdateManager.SendUpdate to every peer of targets, each its own update msg[p];
\* a peer without a channel is skipped
SendUpdates(cs, updates) ==
    [c \in Streams |->
        IF \E p \in DOMAIN updates : peerChannels[p] = c
        THEN Enqueue(cs[c], updates[CHOOSE p \in DOMAIN updates : peerChannels[p] = c])
        ELSE cs[c]]

\* the update SendUpdate has for the peer cannot be enqueued: the peer has no channel, or
\* its channel is full
CannotEnqueue(cs, peerKey) ==
    \/ peerChannels[peerKey] = 0
    \/ cs[peerChannels[peerKey]].closed
    \/ Len(cs[peerChannels[peerKey]].buf) >= MaxMailbox

SendUpdateFailedOnDrop(cs, peerKey) == CannotEnqueue(cs, peerKey)

\* PeersUpdateManager.SendUpdate returns an error: never, an update that cannot be
\* enqueued is dropped
SendUpdateFailed(cs, peerKey) == FALSE

\* a CloseChannel that closes nothing
CloseChannelChansNone(cs, peerKey) == cs

\* PeersUpdateManager.CloseChannel: close and remove the channel of a peer, if it has one
CloseChannelChans(cs, peerKey) ==
    [c \in Streams |->
        IF peerChannels[peerKey] = c THEN [cs[c] EXCEPT !.closed = TRUE] ELSE cs[c]]

CloseChannelMap(peerKey) == [peerChannels EXCEPT ![peerKey] = 0]

(***************************************************************************)
(* Management service: initial state (a fresh account, newAccountWithId)   *)
(***************************************************************************)
\* late and dropped are history: the call presented a one-off key that was used already,
\* an update the call sent could not be enqueued
NewLogin == [pc |-> "start", key |-> 0, sk |-> "", res |-> "", todo |-> {}, late |-> FALSE,
             dropped |-> FALSE]
NoDelete == [called |-> FALSE, err |-> FALSE, dropped |-> FALSE]
NoMessage == [serial |-> NoSerial, peers |-> {}, empty |-> FALSE]
\* snap, maxSerial, got and depth are history: the peers registered when the first
\* message was computed, the highest serial sent on the stream, the number (seq) of the
\* last update sent on the stream, and the most updates found waiting at a receive
IdleStream == [pc |-> "idle", key |-> 0, first |-> NoMessage,
               err |-> "", snap |-> {}, maxSerial |-> NoSerial, got |-> 0, depth |-> 0]

Max(a, b) == IF a >= b THEN a ELSE b

MgmtInit ==
    /\ accPeers = [p \in PeerKeys |-> NoPeer]
    /\ setupKeys = [k \in SetupKeyIds |->
                      [type |-> IF k = "one-off-key" THEN SetupKeyOneOff ELSE SetupKeyReusable,
                       revoked |-> FALSE, expired |-> FALSE, usedTimes |-> 0]]
    /\ serial = 0
    /\ groups = NoGroup
    /\ peerChannels = [p \in PeerKeys |-> 0]
    /\ chans = [c \in Streams |-> [buf |-> <<>>, closed |-> FALSE, enq |-> 0]]
    /\ streams = [s \in Streams |-> IdleStream]
    /\ logins = EmptyBag
    /\ deletes = 0
    /\ lastDelete = NoDelete
    /\ registrations = [k \in SetupKeyIds |-> 0]
    /\ loginCalls = 0

\* the number of Sync calls so far
SyncCalls == Cardinality({s \in Streams : streams[s].pc # "idle"})

\* the setup keys that were revoked
Revoked == {k \in SetupKeyIds : setupKeys[k].revoked}

\* the number of account mutations of the management API so far: every SaveGroup
\* increments the serial, and nothing else does
Mutations == deletes + serial + Cardinality(Revoked)

\* the number of calls so far: Login, Sync and the mutations of the management API
Calls == loginCalls + SyncCalls + Mutations

\* history: the presented key is a one-off key of the account with which a peer
\* has been registered already
UsedOneOff(sk) ==
    /\ sk \in SetupKeyIds
    /\ setupKeys[sk].type = SetupKeyOneOff
    /\ registrations[sk] >= 1

(***************************************************************************)
(* GRPCServer.Login                                                        *)
(* The Login calls in progress are a bag of records (calls have no         *)
(* identity of their own): r is the record of the call that takes a step.  *)
(***************************************************************************)
Step(r, next) == (logins (-) SetToBag({r})) (+) SetToBag({next})

\* Login up to the GetPeer check: a registered peer goes on to the meta update,
\* an unregistered one without credentials is refused, otherwise registration starts.
\* At most MaxLogins Login calls and MaxCalls calls are made in all, at most max Login
\* calls are in progress at a time.
LoginStart(k, sk, max) ==
    /\ loginCalls < MaxLogins
    /\ Calls < MaxCalls
    /\ BagCardinality(logins) < max
    /\ logins' = logins (+) SetToBag({
          IF accPeers[k].present
          THEN [NewLogin EXCEPT !.pc = "meta", !.key = k, !.sk = sk, !.late = UsedOneOff(sk)]
          ELSE IF sk = ""
          THEN [NewLogin EXCEPT !.pc = "done", !.key = k, !.sk = sk,
                                !.res = "PermissionDenied"]
          ELSE [NewLogin EXCEPT !.pc = "register", !.key = k, !.sk = sk,
                                !.late = UsedOneOff(sk)]})
    /\ loginCalls' = loginCalls + 1
    /\ UNCHANGED <<accPeers, setupKeys, serial, groups, peerChannels, chans,
                   streams, deletes, lastDelete, registrations>>

\* a registered branch that consumes the setup key of the request once more
LoginUpdateMetaUsesKey(r) ==
    /\ r \in BagToSet(logins)
    /\ r.pc = "meta"
    /\ logins' = Step(r, [r EXCEPT !.pc = "done",
                                   !.res = IF accPeers[r.key].present
                                           THEN "OK" ELSE "Internal"])
    /\ setupKeys' = IF r.sk \in SetupKeyIds THEN UseSetupKey(r.sk) ELSE setupKeys
    /\ UNCHANGED <<accPeers, serial, groups, peerChannels, chans,
                   streams, deletes, lastDelete, registrations, loginCalls>>

\* the registered branch: UpdatePeerMeta, GetPeerNetwork and the response
LoginUpdateMeta(r) ==
    /\ r \in BagToSet(logins)
    /\ r.pc = "meta"
    /\ logins' = Step(r, [r EXCEPT !.pc = "done",
                                   !.res = IF accPeers[r.key].present
                                           THEN "OK" ELSE "Internal"])
    /\ UNCHANGED <<accPeers, setupKeys, serial, groups, peerChannels, chans,
                   streams, deletes, lastDelete, registrations, loginCalls>>

\* AccountManager.AddPeer, called by registerPeer, under the account lock
AddPeer(r) ==
    /\ r \in BagToSet(logins)
    /\ r.pc = "register"
    /\ IF r.sk \notin SetupKeyIds
       THEN /\ logins' = Step(r, [r EXCEPT !.pc = "done",
                                     !.res = registerPeerError("SetupKeyNotFound")])
            /\ UNCHANGED <<accPeers, setupKeys, registrations, loginCalls>>
       ELSE IF ~IsValid(setupKeys[r.sk])
       THEN /\ logins' = Step(r, [r EXCEPT !.pc = "done",
                                     !.res = registerPeerError("PreconditionFailed")])
            /\ UNCHANGED <<accPeers, setupKeys, registrations, loginCalls>>
       ELSE /\ accPeers' = [accPeers EXCEPT ![r.key] =
                               [ip |-> AllocatePeerIP(TakenIps),
                                connected |-> FALSE, present |-> TRUE]]
            /\ setupKeys' = UseSetupKey(r.sk)
            /\ registrations' = [registrations EXCEPT ![r.sk] = @ + 1]
            /\ UNCHANGED loginCalls
            /\ logins' = Step(r, [r EXCEPT !.pc = "netmap"])
    /\ UNCHANGED <<serial, groups, peerChannels, chans, streams, deletes, lastDelete>>

\* registerPeer: the network map of the new peer, whose peers are to be notified
LoginGetNetworkMap(r) ==
    /\ r \in BagToSet(logins)
    /\ r.pc = "netmap"
    /\ logins' = Step(r,
          IF accPeers[r.key].present
          THEN [r EXCEPT !.pc = "notify", !.todo = GetNetworkMap(r.key).peers]
          ELSE [r EXCEPT !.pc = "done", !.res = "Internal"])
    /\ UNCHANGED <<accPeers, setupKeys, serial, groups, peerChannels, chans,
                   streams, deletes, lastDelete, registrations, loginCalls>>

\* registerPeer: one round of the notification loop, for the remote peer p
LoginNotify(r, p) ==
    /\ r \in BagToSet(logins)
    /\ r.pc = "notify"
    /\ p \in r.todo
    /\ accPeers[p].present => SendUpdateReturns(chans, p)
    /\ IF ~accPeers[p].present
       THEN /\ logins' = Step(r, [r EXCEPT !.pc = "done", !.res = "Internal", !.todo = {}])
            /\ UNCHANGED chans
       ELSE IF SendUpdateFailed(chans, p)
       THEN /\ logins' = Step(r, [r EXCEPT !.pc = "done", !.res = "Internal", !.todo = {},
                                           !.dropped = TRUE])
            /\ UNCHANGED chans
       ELSE /\ chans' = SendUpdates(chans, [q \in {p} |-> toSyncResponse(GetNetworkMap(q))])
            /\ logins' = Step(r, [r EXCEPT !.todo = @ \ {p},
                                           !.dropped = @ \/ CannotEnqueue(chans, p)])
    /\ UNCHANGED <<accPeers, setupKeys, serial, groups, peerChannels,
                   streams, deletes, lastDelete, registrations, loginCalls>>

\* the end of Login after a registration: GetPeerNetwork and the response
LoginFinish(r) ==
    /\ r \in BagToSet(logins)
    /\ r.pc = "notify"
    /\ r.todo = {}
    /\ logins' = Step(r, [r EXCEPT !.pc = "done",
                                   !.res = IF accPeers[r.key].present
                                           THEN "OK" ELSE "Internal"])
    /\ UNCHANGED <<accPeers, setupKeys, serial, groups, peerChannels, chans,
                   streams, deletes, lastDelete, registrations, loginCalls>>

\* the call has returned
LoginReturn(r) ==
    /\ r \in BagToSet(logins)
    /\ r.pc = "done"
    /\ logins' = logins (-) SetToBag({r})
    /\ UNCHANGED <<accPeers, setupKeys, serial, groups, peerChannels, chans,
                   streams, deletes, lastDelete, registrations, loginCalls>>

(***************************************************************************)
(* GRPCServer.Sync                                                         *)
(***************************************************************************)

\* Sync up to the GetPeer check: an unregistered peer is refused
SyncStart(s, k) ==
    /\ streams[s].pc = "idle"
    /\ Calls < MaxCalls
    /\ \A other \in Streams : other < s => streams[other].pc # "idle"
    /\ streams' = [streams EXCEPT ![s] =
          IF accPeers[k].present
          THEN [IdleStream EXCEPT !.pc = "initial", !.key = k]
          ELSE [IdleStream EXCEPT !.pc = "done", !.key = k, !.err = "PermissionDenied"]]
    /\ UNCHANGED <<accPeers, setupKeys, serial, groups, peerChannels, chans,
                   logins, deletes, lastDelete, registrations, loginCalls>>

\* sendInitialSync: the network map of the peer, computed under the account lock, is sent
\* as the first message of the stream; the stream ends when the map cannot be computed or
\* the message cannot be sent (sendOK)
sendInitialSync(s, sendOK) ==
    /\ streams[s].pc = "initial"
    /\ streams' = [streams EXCEPT ![s] =
          IF ~accPeers[streams[s].key].present
          THEN [@ EXCEPT !.pc = "done", !.err = "Internal"]
          ELSE IF ~sendOK
          THEN [@ EXCEPT !.pc = "done", !.err = "Internal"]
          ELSE [@ EXCEPT !.pc = "create",
                         !.first = toSyncResponse(GetNetworkMap(streams[s].key)),
                         !.maxSerial = GetNetworkMap(streams[s].key).serial,
                         !.snap = Registered]]
    /\ UNCHANGED <<accPeers, setupKeys, serial, groups, peerChannels, chans,
                   logins, deletes, lastDelete, registrations, loginCalls>>

\* PeersUpdateManager.CreateChannel: a channel the peer already has is closed and replaced
CreateChannel(s) ==
    /\ streams[s].pc = "create"
    /\ LET k == streams[s].key
       IN /\ chans' = [CloseChannelChans(chans, k) EXCEPT ![s] = [buf |-> <<>>, closed |-> FALSE, enq |-> 0]]
          /\ peerChannels' = [peerChannels EXCEPT ![k] = s]
    /\ streams' = [streams EXCEPT ![s].pc = "mark"]
    /\ UNCHANGED <<accPeers, setupKeys, serial, groups, logins, deletes, lastDelete, registrations, loginCalls>>

\* AccountManager.MarkPeerConnected: an error (the peer is gone) is only logged by Sync
MarkPeerConnected(peerKey, connected) ==
    IF accPeers[peerKey].present
    THEN [accPeers EXCEPT ![peerKey].connected = connected]
    ELSE accPeers

SyncMarkConnected(s) ==
    /\ streams[s].pc = "mark"
    /\ accPeers' = MarkPeerConnected(streams[s].key, TRUE)
    /\ streams' = [streams EXCEPT ![s].pc = "loop"]
    /\ UNCHANGED <<setupKeys, serial, groups, peerChannels, chans, logins, deletes, lastDelete,
                   registrations, loginCalls>>

\* the update loop, an update is available: it is sent on the stream; a failed send
\* ends the stream at once
SyncDeliver(s, sendOK) ==
    /\ streams[s].pc = "loop"
    /\ chans[s].buf # <<>>
    /\ chans' = [chans EXCEPT ![s].buf = Tail(@)]
    /\ streams' = [streams EXCEPT ![s] =
          IF sendOK
          THEN [@ EXCEPT !.maxSerial = Max(@, Receive(chans[s].buf).Update.serial),
                         !.got = Receive(chans[s].buf).seq,
                         !.depth = Max(@, Len(chans[s].buf))]
          ELSE [@ EXCEPT !.pc = "done", !.err = "Internal"]]
    /\ UNCHANGED <<accPeers, setupKeys, serial, groups, peerChannels, logins, deletes, lastDelete,
                   registrations, loginCalls>>

\* the update loop, the channel was closed and is drained: Sync returns
SyncChannelClosed(s) ==
    /\ streams[s].pc = "loop"
    /\ chans[s].buf = <<>>
    /\ chans[s].closed
    /\ streams' = [streams EXCEPT ![s].pc = "done"]
    /\ UNCHANGED <<accPeers, setupKeys, serial, groups, peerChannels, chans, logins,
                   deletes, lastDelete, registrations, loginCalls>>

\* the update loop, the stream context is done: CloseChannel of the peer's key
SyncContextDone(s) ==
    /\ streams[s].pc = "loop"
    /\ chans' = CloseChannelChans(chans, streams[s].key)
    /\ peerChannels' = CloseChannelMap(streams[s].key)
    /\ streams' = [streams EXCEPT ![s].pc = "closing"]
    /\ UNCHANGED <<accPeers, setupKeys, serial, groups, logins, deletes, lastDelete, registrations, loginCalls>>

\* ... then the peer is marked disconnected and Sync returns the context's error
SyncMarkDisconnected(s) ==
    /\ streams[s].pc = "closing"
    /\ accPeers' = MarkPeerConnected(streams[s].key, FALSE)
    /\ streams' = [streams EXCEPT ![s].pc = "done", ![s].err = "Canceled"]
    /\ UNCHANGED <<setupKeys, serial, groups, peerChannels, chans, logins, deletes, lastDelete,
                   registrations, loginCalls>>

(***************************************************************************)
(* Account mutations of the management API                                 *)
(***************************************************************************)

\* AccountManager.DeletePeer, the whole call under the account lock: the peer is deleted
\* from the store, it is sent an empty peer list, every remaining peer the list of the
\* other remaining peers, and the channel of the deleted peer is closed. An error of
\* SendUpdate ends the call at once with that error: the peer stays deleted, the
\* remaining peers whose turn had not come (notified are those whose turn had) are not
\* sent anything and the channel is not closed.
DeletePeer(peerKey) ==
    /\ accPeers[peerKey].present
    /\ Mutations < MaxMutations
    /\ Calls < MaxCalls
    /\ \A p \in Registered : SendUpdateReturns(chans, p)
    /\ LET remaining == Registered \ {peerKey}
           gone == [serial |-> NoSerial, peers |-> {}, empty |-> TRUE]
           rest(p) == [serial |-> NoSerial, peers |-> remaining \ {p},
                       empty |-> Cardinality(remaining \ {p}) = 0]
           first == SendUpdates(chans, [p \in {peerKey} |-> gone])
           failing == {p \in remaining : SendUpdateFailed(first, p)}
           drops == \E p \in Registered : CannotEnqueue(chans, p)
       IN /\ accPeers' = [accPeers EXCEPT ![peerKey] = NoPeer]
          /\ IF SendUpdateFailed(chans, peerKey)
             THEN /\ lastDelete' = [called |-> TRUE, err |-> TRUE, dropped |-> TRUE]
                  /\ UNCHANGED <<chans, peerChannels>>
             ELSE IF failing # {}
             THEN /\ \E notified \in SUBSET (remaining \ failing) :
                        chans' = SendUpdates(first, [p \in notified |-> rest(p)])
                  /\ lastDelete' = [called |-> TRUE, err |-> TRUE, dropped |-> TRUE]
                  /\ UNCHANGED peerChannels
             ELSE /\ chans' = CloseChannelChans(
                                 SendUpdates(first, [p \in remaining |-> rest(p)]), peerKey)
                  /\ peerChannels' = CloseChannelMap(peerKey)
                  /\ lastDelete' = [called |-> TRUE, err |-> FALSE, dropped |-> drops]
    /\ deletes' = deletes + 1
    /\ UNCHANGED <<setupKeys, serial, groups, streams, logins, registrations, loginCalls>>

\* AccountManager.RevokeSetupKey, the whole call under the account lock: a copy of the
\* key, marked as revoked, replaces the key in the account
RevokeSetupKey(keyId) ==
    /\ Mutations < MaxMutations
    /\ Calls < MaxCalls
    /\ setupKeys' = [setupKeys EXCEPT ![keyId].revoked = TRUE]
    /\ UNCHANGED <<accPeers, serial, groups, peerChannels, chans, streams, logins,
                   deletes, lastDelete, registrations, loginCalls>>

\* time passes the ExpiresAt of a setup key
ExpireSetupKey(keyId) ==
    /\ ~setupKeys[keyId].expired
    /\ setupKeys' = [setupKeys EXCEPT ![keyId].expired = TRUE]
    /\ UNCHANGED <<accPeers, serial, groups, peerChannels, chans, streams, logins,
                   deletes, lastDelete, registrations, loginCalls>>

\* updateAccountPeers: every peer of the account is sent its recomputed network map
updateAccountPeers(cs, newSerial) ==
    SendUpdates(cs, [p \in Registered |->
                        toSyncResponse([serial |-> newSerial, peers |-> GetPeersForAPeer(p)])])

\* DefaultAccountManager.SaveGroup, the whole call under the account lock
SaveGroup(members) ==
    /\ Mutations < MaxMutations
    /\ Calls < MaxCalls
    /\ groups' = members
    /\ serial' = IncSerial(serial)
    /\ chans' = updateAccountPeers(chans, IncSerial(serial))
    /\ UNCHANGED <<accPeers, setupKeys, peerChannels, streams, logins, deletes, lastDelete,
                   registrations, loginCalls>>

(***************************************************************************)
(* Client Engine: updateNetworkMap                                         *)
(***************************************************************************)

\* a NetworkMap as the Engine receives it: serial, remote peers, RemotePeersIsEmpty
NoMap == [serial |-> NoSerial, peers |-> {}, empty |-> FALSE]

\* the maps Management can send: toSyncResponse sets RemotePeersIsEmpty exactly when
\* the list of remote peers is empty
NetworkMaps ==
    {toSyncResponse([serial |-> n, peers |-> ps]) :
        n \in 0..MaxMapSerial, ps \in SUBSET PeerKeys}

EngineInit ==
    /\ networkSerial = 0
    /\ peerConns = {}
    /\ inMap = NoMap
    /\ before = [serial |-> 0, peers |-> {}]
    /\ committed = <<>>

\* step 1 with < for <=: a map with the last-applied serial is applied again
IsStaleStrict(networkMap) == networkMap.serial < networkSerial

\* step 1: a map whose serial is not greater than the last-applied one is stale
IsStale(networkMap) == networkMap.serial <= networkSerial

\* step 3 forgotten: no PeerConn is cancelled
removePeersNone(networkMap) == {}

\* step 3: the PeerConns to cancel, all of them when the map says that the list of
\* remote peers is empty
removePeers(networkMap) ==
    IF networkMap.empty THEN peerConns ELSE peerConns \ networkMap.peers

\* step 4: the peers that get a new PeerConn
addNewPeers(networkMap) == networkMap.peers \ peerConns

\* step 7 forgotten: the last-applied serial stays
lastAppliedKept(networkMap) == networkSerial

\* step 7: the last-applied serial after the map is applied
lastApplied(networkMap) == networkMap.serial

\* a stale map also has its peers diffed, the serial stays
updateNetworkMapRefresh(networkMap) ==
    /\ inMap' = networkMap
    /\ before' = [serial |-> networkSerial, peers |-> peerConns]
    /\ peerConns' = (peerConns \ removePeers(networkMap)) \cup addNewPeers(networkMap)
    /\ IF IsStale(networkMap)
       THEN UNCHANGED <<networkSerial, committed>>
       ELSE /\ networkSerial' = lastApplied(networkMap)
            /\ committed' = Append(committed, lastApplied(networkMap))

\* Engine.updateNetworkMap(networkMap)
updateNetworkMap(networkMap) ==
    /\ inMap' = networkMap
    /\ before' = [serial |-> networkSerial, peers |-> peerConns]
    /\ IF IsStale(networkMap)
       THEN UNCHANGED <<networkSerial, peerConns, committed>>
       ELSE /\ peerConns' = (peerConns \ removePeers(networkMap))
                                \cup addNewPeers(networkMap)
            /\ networkSerial' = lastApplied(networkMap)
            /\ committed' = Append(committed, lastApplied(networkMap))

(***************************************************************************)
(* peer.Conn: Open, Close, cleanup and the signal handlers                 *)
(***************************************************************************)

Ends == {1, 2}
Remote(e) == 3 - e

\* public keys: the non-empty strings of at most MaxKeyLen characters
Keys == UNION {[1..n -> 1..KeyAlphabet] : n \in 1..MaxKeyLen}

StatusDisconnected == "Disconnected"
StatusConnecting == "Connecting"
StatusConnected == "Connected"

CandidateTypes == {"host", "srflx", "relay"}

\* the kinds of address IsPublicIP tells apart
AddressClasses == {"public", "private", "loopback", "linkLocal"}

\* the selected candidate pair: the type and the address of each candidate
CandidatePairs ==
    [localType : CandidateTypes, remoteType : CandidateTypes,
     localAddr : AddressClasses, remoteAddr : AddressClasses]

NoPair == [localType |-> "", remoteType |-> "", localAddr |-> "", remoteAddr |-> ""]

\* false for a loopback, a link-local and a private address
IsPublicIP(ip) == ip \notin {"loopback", "linkLocal", "private"}

\* a comparison that looks at the first character only
StrGreaterFirst(a, b) == Head(a) > Head(b)

\* the > of two strings: the first differing character decides, a proper prefix is less
RECURSIVE StrGreater(_, _)
StrGreater(a, b) ==
    IF a = <<>> THEN FALSE
    ELSE IF b = <<>> THEN TRUE
    ELSE IF Head(a) # Head(b) THEN Head(a) > Head(b)
    ELSE StrGreater(Tail(a), Tail(b))

\* isControlling := conn.config.LocalKey > conn.config.Key
isControlling(e) == StrGreater(localKey[e], localKey[Remote(e)])

\* shouldUseProxy without its last test: two private hosts go through the proxy
shouldUseProxyOffLan(pair) ==
    IF pair.localType = "relay" \/ pair.remoteType = "relay" THEN TRUE
    ELSE IF IsPublicIP(pair.remoteAddr) /\ pair.remoteType = "host" THEN FALSE
    ELSE IF IsPublicIP(pair.localAddr) /\ pair.localType = "host" THEN FALSE
    ELSE TRUE

shouldUseProxy(pair) ==
    LET remoteIsPublic == IsPublicIP(pair.remoteAddr)
        myIsPublic == IsPublicIP(pair.localAddr)
    IN  IF pair.localType = "relay" \/ pair.remoteType = "relay" THEN TRUE
        ELSE IF remoteIsPublic /\ pair.remoteType = "host" THEN FALSE
        ELSE IF myIsPublic /\ pair.localType = "host" THEN FALSE
        ELSE IF /\ pair.localType = "host" /\ pair.remoteType = "host"
                /\ ~remoteIsPublic /\ ~myIsPublic THEN FALSE
        ELSE TRUE

\* no OnRemoteOffer or OnRemoteAnswer call was made yet
NoHandOver == [conn |-> 0, message |-> "", ok |-> FALSE]

\* nbStatus.PeerState{PubKey: conn.config.Key} with its ConnStatus set
PeerState(connStatus) ==
    [ConnStatus |-> connStatus, Direct |-> FALSE, Relayed |-> FALSE,
     LocalIceCandidateType |-> "", RemoteIceCandidateType |-> ""]

\* the State Status.AddPeer puts into the recorder
AddedPeer == PeerState(StatusDisconnected)

\* the peerState startProxy reports once the proxy has started
ConnectedState(connStatus, useProxy, pair) ==
    [ConnStatus |-> connStatus, Direct |-> ~useProxy,
     Relayed |-> (pair.localType = "relay" \/ pair.remoteType = "relay"),
     LocalIceCandidateType |-> pair.localType, RemoteIceCandidateType |-> pair.remoteType]

\* an UpdatePeerState that takes the status and the candidate types but keeps the flags
UpdatePeerStateKeepFlags(peerState, receivedState) ==
    IF receivedState.ConnStatus # peerState.ConnStatus
    THEN [receivedState EXCEPT !.Direct = peerState.Direct, !.Relayed = peerState.Relayed]
    ELSE peerState

\* Status.UpdatePeerState on a peer the recorder holds: the State it holds afterwards
UpdatePeerState(peerState, receivedState) ==
    IF receivedState.ConnStatus # peerState.ConnStatus
    THEN receivedState
    ELSE peerState

\* the proxy startProxy creates
NewProxy(useProxy) == IF useProxy THEN "WireguardProxy" ELSE "NoProxy"

\* the data path a proxy of this type runs: the userspace splice or the direct endpoint
Path(p) == IF p = "WireguardProxy" THEN "proxy" ELSE "direct"

\* no setup key is being looked up
KeyIdle ==
    /\ storedKey = <<>>
    /\ presentedKey = <<>>
    /\ lookup = {}

\* the settings of the backOff of Client.Sync, in milliseconds
InitialInterval == 800
MaxInterval == 3000
MaxElapsedTime == 0
\* the MaxElapsedTime of the backOff of Login
LoginMaxElapsedTime == 10000
Stop == 0 - 1

\* backoff.Retry resets backOff and runs operation
RetryStart ==
    /\ syncPc = "op"
    /\ interval = InitialInterval
    /\ wait = 0
    /\ elapsed = 0
    /\ retries = 0
    /\ syncCancelled = FALSE

MaxDnsCalls == 2
DnsCalls == 1..MaxDnsCalls

NoDnsCall == [pc |-> "idle", serial |-> 0, update |-> "", res |-> ""]

\* the DNS server as NewDefaultServer leaves it
DnsStart ==
    /\ updateSerial = 0
    /\ previousConfigHash = 0
    /\ currentConfig = ""
    /\ dnsCtxDone = FALSE
    /\ dnsCalls = [c \in DnsCalls |-> NoDnsCall]

\* an account with an empty group, as it was saved
GroupStart ==
    /\ groupPeers = {}
    /\ accountSerial = 0
    /\ savedAccount = [serial |-> 0, peers |-> {}]
    /\ sentSerials = {}
    /\ groupCalls = 0

\* the components modelled on their own, at rest
SoloIdle == KeyIdle /\ RetryStart /\ DnsStart /\ GroupStart

\* two Conns as NewConn leaves them, no pair selected
ConnStart(k1, k2) ==
    /\ localKey = <<k1, k2>>
    /\ pc = [e \in Ends |-> "new"]
    /\ status = [e \in Ends |-> StatusDisconnected]
    /\ agent = [e \in Ends |-> "nil"]
    /\ proxy = [e \in Ends |-> "nil"]
    /\ active = [e \in Ends |-> {}]
    /\ notify = [e \in Ends |-> FALSE]
    /\ ctxDone = [e \in Ends |-> FALSE]
    /\ role = [e \in Ends |-> "none"]
    /\ openErr = [e \in Ends |-> ""]
    /\ closeRes = [e \in Ends |-> ""]
    /\ closeAsked = [e \in Ends |-> FALSE]
    /\ statusRecorder = [e \in Ends |-> AddedPeer]
    /\ accepted = NoHandOver
    /\ offers = {}
    /\ answers = {}
    /\ selected = NoPair
    /\ decided = "unset"

ConnInitWith(k1, k2) == ConnStart(k1, k2) /\ SoloIdle

\* two Conns for a pair of peers with distinct public keys
ConnInit == \E k1 \in Keys, k2 \in Keys : k1 # k2 /\ ConnInitWith(k1, k2)

\* an Open that returns cancels the context of every Conn
ReturnCancelsAll(e, err) ==
    /\ pc' = [pc EXCEPT ![e] = "cleanup"]
    /\ openErr' = [openErr EXCEPT ![e] = err]
    /\ ctxDone' = [x \in Ends |-> ctxDone[x] \/ notify[x]]

\* Open returns err: the deferred notifyDisconnected runs, cleanup is still to run
Return(e, err) ==
    /\ pc' = [pc EXCEPT ![e] = "cleanup"]
    /\ openErr' = [openErr EXCEPT ![e] = err]
    /\ ctxDone' = [ctxDone EXCEPT ![e] = @ \/ notify[e]]

\* Conn.Open up to reCreateAgent; the Engine opens a Conn once
Open(e, res) ==
    /\ pc[e] = "new"
    /\ status' = status
    /\ statusRecorder' = [statusRecorder EXCEPT ![e] = UpdatePeerState(@, PeerState(status[e]))]
    /\ IF res = "ok"
       THEN /\ agent' = [agent EXCEPT ![e] = "open"]
            /\ pc' = [pc EXCEPT ![e] = "offer"]
            /\ UNCHANGED <<openErr, ctxDone>>
       ELSE /\ agent' = [agent EXCEPT ![e] = IF res = "noAgent" THEN "nil" ELSE "open"]
            /\ Return(e, "error")
    /\ UNCHANGED <<localKey, accepted, proxy, active, notify, role, closeRes, closeAsked, offers, answers>>

\* Conn.sendOffer, called by Open
sendOffer(e, ok) ==
    /\ pc[e] = "offer"
    /\ IF ok
       THEN /\ offers' = offers \cup {Remote(e)}
            /\ pc' = [pc EXCEPT ![e] = "wait"]
            /\ UNCHANGED <<openErr, ctxDone>>
       ELSE /\ offers' = offers
            /\ Return(e, "error")
    /\ UNCHANGED <<localKey, accepted, statusRecorder, status, agent, proxy, active, notify, role, closeRes, closeAsked, answers>>

\* every Conn takes what it is sent
readyAlways(e) == TRUE

\* a receiver waits on remoteOffersCh and remoteAnswerCh: Open is in its first select
ready(e) == pc[e] = "wait"

\* Conn.OnRemoteOffer: the offer is taken only by an Open that waits in its select
OnRemoteOffer(e) ==
    /\ e \in offers
    /\ offers' = offers \ {e}
    /\ pc' = IF ready(e) THEN [pc EXCEPT ![e] = "answer"] ELSE pc
    /\ accepted' = [conn |-> e, message |-> "offer", ok |-> ready(e)]
    /\ UNCHANGED <<localKey, statusRecorder, status, agent, proxy, active, notify, ctxDone, role, openErr,
                   closeRes, closeAsked, answers>>

\* Conn.sendAnswer, called by Open after it received an offer
sendAnswer(e, ok) ==
    /\ pc[e] = "answer"
    /\ IF ok
       THEN /\ answers' = answers \cup {Remote(e)}
            /\ pc' = [pc EXCEPT ![e] = "creds"]
            /\ UNCHANGED <<openErr, ctxDone>>
       ELSE /\ answers' = answers
            /\ Return(e, "error")
    /\ UNCHANGED <<localKey, accepted, statusRecorder, status, agent, proxy, active, notify, role, closeRes, closeAsked, offers>>

\* Conn.OnRemoteAnswer: the answer is taken only by an Open that waits in its select
OnRemoteAnswer(e) ==
    /\ e \in answers
    /\ answers' = answers \ {e}
    /\ pc' = IF ready(e) THEN [pc EXCEPT ![e] = "creds"] ELSE pc
    /\ accepted' = [conn |-> e, message |-> "answer", ok |-> ready(e)]
    /\ UNCHANGED <<localKey, statusRecorder, status, agent, proxy, active, notify, ctxDone, role, openErr,
                   closeRes, closeAsked, offers>>

TimeoutAsError(e) ==
    /\ pc[e] = "wait"
    /\ Return(e, "error")
    /\ UNCHANGED <<localKey, accepted, statusRecorder, status, agent, proxy, active, notify, role, closeRes, closeAsked, offers,
                   answers>>

\* Open: time.After(conn.config.Timeout) fires in the first select
Timeout(e) ==
    /\ pc[e] = "wait"
    /\ Return(e, "ConnectionTimeout")
    /\ UNCHANGED <<localKey, accepted, statusRecorder, status, agent, proxy, active, notify, role, closeRes, closeAsked, offers,
                   answers>>

\* Open is connecting: it has been called and no ICE pair is selected yet
Connecting(e) == pc[e] \in {"offer", "wait", "answer", "creds", "gather", "dial", "checking"}

\* Conn.Close: the send on closeCh succeeds only while Open waits in one of its selects,
\* and in the last select only as long as the context is not cancelled (a select that
\* conn.ctx.Done() has woken no longer receives from closeCh)
Close(e) ==
    /\ closeAsked' = [closeAsked EXCEPT ![e] = @ \/ Connecting(e)]
    /\ IF pc[e] = "wait" \/ (pc[e] = "connected" /\ ~ctxDone[e])
       THEN /\ closeRes' = [closeRes EXCEPT ![e] = "OK"]
            /\ Return(e, "ConnectionClosed")
       ELSE /\ closeRes' = [closeRes EXCEPT ![e] = "AlreadyClosed"]
            /\ UNCHANGED <<pc, openErr, ctxDone>>
    /\ UNCHANGED <<localKey, accepted, statusRecorder, status, agent, proxy, active, notify, role, offers, answers>>

connectingStatusKept(e) == status[e]

\* the status Open sets once it has the remote credentials
connectingStatus(e) == StatusConnecting

\* Open: with the remote credentials, status Connecting and a fresh context
setConnecting(e) ==
    /\ pc[e] = "creds"
    /\ status' = [status EXCEPT ![e] = connectingStatus(e)]
    /\ notify' = [notify EXCEPT ![e] = TRUE]
    /\ ctxDone' = [ctxDone EXCEPT ![e] = FALSE]
    /\ statusRecorder' = [statusRecorder EXCEPT ![e] = UpdatePeerState(@, PeerState(status'[e]))]
    /\ pc' = [pc EXCEPT ![e] = "gather"]
    /\ UNCHANGED <<localKey, accepted, agent, proxy, active, role, openErr, closeRes, closeAsked, offers, answers>>

\* Open: conn.agent.GatherCandidates()
GatherCandidates(e, ok) ==
    /\ pc[e] = "gather"
    /\ IF ok
       THEN /\ pc' = [pc EXCEPT ![e] = "dial"]
            /\ UNCHANGED <<openErr, ctxDone>>
       ELSE Return(e, "error")
    /\ UNCHANGED <<localKey, accepted, statusRecorder, status, agent, proxy, active, notify, role, closeRes, closeAsked, offers,
                   answers>>

\* Open: the controlling side calls Dial, the other one Accept
DialOrAccept(e) ==
    /\ pc[e] = "dial"
    /\ role' = [role EXCEPT ![e] = IF isControlling(e) THEN "Dial" ELSE "Accept"]
    /\ pc' = [pc EXCEPT ![e] = "checking"]
    /\ UNCHANGED <<localKey, accepted, statusRecorder, status, agent, proxy, active, notify, ctxDone, openErr,
                   closeRes, closeAsked, offers, answers>>

\* Dial or Accept returns: a connection when the remote agent runs its checks too and
\* the context is not cancelled, an error otherwise
Connected(e, ok) ==
    /\ pc[e] = "checking"
    /\ IF ok
       THEN /\ ~ctxDone[e]
            /\ role[Remote(e)] # "none" /\ agent[Remote(e)] = "open"
            /\ pc' = [pc EXCEPT ![e] = "proxy"]
            /\ UNCHANGED <<openErr, ctxDone>>
       ELSE Return(e, "error")
    /\ UNCHANGED <<localKey, accepted, statusRecorder, status, agent, proxy, active, notify, role, closeRes, closeAsked, offers,
                   answers>>

\* Start failed or not, the status becomes Connected
startProxyStatusAlways(e, startOK) == StatusConnected

\* the status after p.Start: Connected only when Start returned no error
startProxyStatus(e, startOK) == IF startOK THEN StatusConnected ELSE status[e]

\* Conn.startProxy, called by Open, and Open up to its last select
startProxy(e, pairOK, pair, startOK) ==
    /\ pc[e] = "proxy"
    /\ IF ~pairOK
       THEN /\ Return(e, "error")
            /\ UNCHANGED <<proxy, active, status, statusRecorder>>
       ELSE /\ proxy' = [proxy EXCEPT ![e] = NewProxy(shouldUseProxy(pair))]
            /\ status' = [status EXCEPT ![e] = startProxyStatus(e, startOK)]
            /\ IF startOK
               THEN /\ active' = [active EXCEPT ![e] = @ \cup {Path(proxy'[e])}]
                    /\ statusRecorder' = [statusRecorder EXCEPT ![e] =
                            UpdatePeerState(@, ConnectedState(status'[e], shouldUseProxy(pair), pair))]
                    /\ pc' = [pc EXCEPT ![e] = "connected"]
                    /\ UNCHANGED <<openErr, ctxDone>>
               ELSE /\ UNCHANGED <<active, statusRecorder>>
                    /\ Return(e, "error")
    /\ UNCHANGED <<localKey, accepted, agent, notify, role, closeRes, closeAsked, offers, answers>>

\* Conn.onICEConnectionStateChange with Failed or Disconnected, once the agent runs
\* its checks
onICEConnectionStateChange(e) ==
    /\ pc[e] \in {"checking", "proxy", "connected"}
    /\ notify[e] /\ ~ctxDone[e]
    /\ ctxDone' = [ctxDone EXCEPT ![e] = TRUE]
    /\ UNCHANGED <<localKey, accepted, statusRecorder, pc, status, agent, proxy, active, notify, role, openErr,
                   closeRes, closeAsked, offers, answers>>

\* Open: conn.ctx.Done() fires in the last select
Disconnected(e) ==
    /\ pc[e] = "connected"
    /\ ctxDone[e]
    /\ Return(e, "ConnectionDisconnected")
    /\ UNCHANGED <<localKey, accepted, statusRecorder, status, agent, proxy, active, notify, role, closeRes, closeAsked, offers,
                   answers>>

\* Conn.cleanup, deferred by Open; a Close that fails has not closed its object
cleanup(e, agentOK, proxyOK) ==
    /\ pc[e] = "cleanup"
    /\ pc' = [pc EXCEPT ![e] = "returned"]
    /\ IF agent[e] # "nil" /\ ~agentOK
       THEN UNCHANGED <<agent, proxy, active, notify, status, statusRecorder>>
       ELSE /\ agent' = [agent EXCEPT ![e] = "nil"]
            /\ IF proxy[e] # "nil" /\ ~proxyOK
               THEN UNCHANGED <<proxy, active, notify, status, statusRecorder>>
               ELSE /\ proxy' = [proxy EXCEPT ![e] = "nil"]
                    /\ active' = [active EXCEPT ![e] =
                                    IF proxy[e] = "nil" THEN @ ELSE @ \ {Path(proxy[e])}]
                    /\ notify' = [notify EXCEPT ![e] = FALSE]
                    /\ status' = [status EXCEPT ![e] = StatusDisconnected]
                    /\ statusRecorder' = [statusRecorder EXCEPT ![e] =
                            UpdatePeerState(@, PeerState(StatusDisconnected))]
    /\ UNCHANGED <<localKey, accepted, ctxDone, role, openErr, closeRes, closeAsked, offers, answers>>

\* the records a Login call can be in
LoginRecords == BagToSet(logins)

\* concurrent Logins and DeletePeer on one account, no Sync stream open
LoginNext ==
    \/ \E k \in PeerKeys, sk \in PresentedKeys : LoginStart(k, sk, MaxLogins) /\ UNCHANGED clientVars
    \/ \E r \in LoginRecords : LoginUpdateMeta(r) /\ UNCHANGED clientVars
    \/ \E r \in LoginRecords : AddPeer(r) /\ UNCHANGED clientVars
    \/ \E r \in LoginRecords : LoginGetNetworkMap(r) /\ UNCHANGED clientVars
    \/ \E r \in LoginRecords, p \in PeerKeys : LoginNotify(r, p) /\ UNCHANGED clientVars
    \/ \E r \in LoginRecords : LoginFinish(r) /\ UNCHANGED clientVars
    \/ \E r \in LoginRecords : LoginReturn(r) /\ UNCHANGED clientVars
    \/ \E k \in PeerKeys : DeletePeer(k) /\ UNCHANGED clientVars

\* the state in which every specification starts, but for the keys of the peer pair
Init == MgmtInit /\ EngineInit /\ ConnInitWith(<<1>>, <<2>>)

LoginSpec == Init /\ [][LoginNext]_vars

\* concurrent Logins while setup keys are revoked and expire
SetupKeyNext ==
    \/ \E k \in PeerKeys, sk \in PresentedKeys : LoginStart(k, sk, MaxLogins) /\ UNCHANGED clientVars
    \/ \E r \in LoginRecords : LoginUpdateMeta(r) /\ UNCHANGED clientVars
    \/ \E r \in LoginRecords : AddPeer(r) /\ UNCHANGED clientVars
    \/ \E r \in LoginRecords : LoginGetNetworkMap(r) /\ UNCHANGED clientVars
    \/ \E r \in LoginRecords, p \in PeerKeys : LoginNotify(r, p) /\ UNCHANGED clientVars
    \/ \E r \in LoginRecords : LoginFinish(r) /\ UNCHANGED clientVars
    \/ \E r \in LoginRecords : LoginReturn(r) /\ UNCHANGED clientVars
    \/ \E keyId \in SetupKeyIds : RevokeSetupKey(keyId) /\ UNCHANGED clientVars
    \/ \E keyId \in SetupKeyIds : ExpireSetupKey(keyId) /\ UNCHANGED clientVars

SetupKeySpec == Init /\ [][SetupKeyNext]_vars

\* Sync streams with registrations (one Login at a time, with the default setup key),
\* DeletePeer and group changes
SyncNext ==
    \/ \E k \in PeerKeys : LoginStart(k, "default-key", 1) /\ UNCHANGED clientVars
    \/ \E r \in LoginRecords : LoginUpdateMeta(r) /\ UNCHANGED clientVars
    \/ \E r \in LoginRecords : AddPeer(r) /\ UNCHANGED clientVars
    \/ \E r \in LoginRecords : LoginGetNetworkMap(r) /\ UNCHANGED clientVars
    \/ \E r \in LoginRecords, p \in PeerKeys : LoginNotify(r, p) /\ UNCHANGED clientVars
    \/ \E r \in LoginRecords : LoginFinish(r) /\ UNCHANGED clientVars
    \/ \E r \in LoginRecords : LoginReturn(r) /\ UNCHANGED clientVars
    \/ \E s \in SyncStreams, k \in PeerKeys : SyncStart(s, k) /\ UNCHANGED clientVars
    \/ \E s \in Streams, sendOK \in BOOLEAN : sendInitialSync(s, sendOK) /\ UNCHANGED clientVars
    \/ \E s \in Streams : CreateChannel(s) /\ UNCHANGED clientVars
    \/ \E s \in Streams : SyncMarkConnected(s) /\ UNCHANGED clientVars
    \/ \E s \in Streams, sendOK \in BOOLEAN : SyncDeliver(s, sendOK) /\ UNCHANGED clientVars
    \/ \E s \in Streams : SyncChannelClosed(s) /\ UNCHANGED clientVars
    \/ \E s \in Streams : SyncContextDone(s) /\ UNCHANGED clientVars
    \/ \E s \in Streams : SyncMarkDisconnected(s) /\ UNCHANGED clientVars
    \/ \E k \in PeerKeys : DeletePeer(k) /\ UNCHANGED clientVars
    \/ \E members \in {PeerKeys} : SaveGroup(members) /\ UNCHANGED clientVars

SyncSpec == Init /\ [][SyncNext]_vars

\* the Engine receives the maps of its Sync stream, in any order
EngineNext ==
    \/ \E networkMap \in NetworkMaps : updateNetworkMap(networkMap) /\ UNCHANGED <<mgmtVars, connVars, pathVars, soloVars>>

EngineSpec == Init /\ [][EngineNext]_vars

(***************************************************************************)
(* Properties of the Management service                                    *)
(***************************************************************************)

\* the addresses of the account subnet: network address, hosts, broadcast address
Subnet == 0..(SubnetHosts + 1)

\* C2: at every state of the account, also those reached by concurrent first Logins,
\* the tunnel IPs of its peers are pairwise distinct and lie inside the account subnet
C2_PeerIPsDistinct ==
    \A p \in Registered :
        /\ accPeers[p].ip \in Subnet
        /\ \A q \in Registered : p # q => accPeers[p].ip # accPeers[q].ip

\* two first Logins of different peers are in progress at once, both past AddPeer
C2_Witness ==
    \E r1 \in LoginRecords, r2 \in LoginRecords :
        /\ r1.key # r2.key
        /\ r1.pc = "netmap" /\ r2.pc = "netmap"
        /\ accPeers[r1.key].present /\ accPeers[r2.key].present

\* C3 (as claimed): a Sync stream that stays open across a mutation delivers a
\* NetworkMap with a serial of at least the post-mutation serial. Stated on the states
\* in which nothing more can arrive on an open stream: it waits in its loop, its mailbox
\* is open and empty and no registration is still notifying; by then the stream has sent
\* a map with the serial of the account.
C3_StreamCatchesUp ==
    \A s \in Streams :
        (/\ streams[s].pc = "loop"
         /\ chans[s].buf = <<>>
         /\ ~chans[s].closed
         /\ peerChannels[streams[s].key] = s
         /\ logins = EmptyBag)
        => streams[s].maxSerial >= serial

\* C4 (as claimed): every Login that starts after a peer was registered with a one-off
\* key and that presents this key fails with FailedPrecondition
C4_Original ==
    \A r \in LoginRecords :
        (r.pc = "done" /\ r.late) => r.res = "FailedPrecondition"

\* C4 (amended): at most one peer is ever registered with a one-off setup key, and
\* once one is, AddPeer for every Login of an unregistered public key with this key
\* fails (FailedPrecondition) and leaves the peers of the account unchanged
C4_OneOffOnce ==
    /\ [](\A k \in SetupKeyIds :
            setupKeys[k].type = SetupKeyOneOff => registrations[k] <= 1)
    /\ [][\A r \in LoginRecords :
            (/\ r.pc = "register"
             /\ UsedOneOff(r.sk)
             /\ CopiesIn(r, logins') < CopiesIn(r, logins))
            => /\ logins' = Step(r, [r EXCEPT !.pc = "done",
                                              !.res = "FailedPrecondition"])
               /\ accPeers' = accPeers]_vars

\* a Login of an unregistered peer with the used one-off key has been refused
C4_Witness ==
    \E r \in LoginRecords :
        /\ r.pc = "done" /\ r.late
        /\ r.res = "FailedPrecondition"
        /\ ~accPeers[r.key].present

\* C10: the first message of every Sync stream lists exactly the other peers that
\* were registered in the account when it was computed, never the peer itself
C10_FirstMessage ==
    \A s \in Streams :
        streams[s].first # NoMessage =>
            /\ streams[s].first.peers = streams[s].snap \ {streams[s].key}
            /\ streams[s].key \notin streams[s].first.peers
            /\ streams[s].first.empty = (streams[s].first.peers = {})

\* a first message that lists another peer
C10_Witness ==
    \E s \in Streams :
        /\ streams[s].first # NoMessage
        /\ streams[s].first.peers # {}
        /\ streams[s].key \in streams[s].snap

\* the pairs the Conns of ConnNext are given, one for each outcome of startProxy: two
\* hosts of one private network, two server-reflexive candidates, a relay at one side
ConnPairs ==
    {[localType |-> "host", remoteType |-> "host", localAddr |-> "private", remoteAddr |-> "private"],
     [localType |-> "srflx", remoteType |-> "srflx", localAddr |-> "public", remoteAddr |-> "public"],
     [localType |-> "relay", remoteType |-> "srflx", localAddr |-> "public", remoteAddr |-> "public"]}

\* the two Conns of a peer pair, their Engines and the messages Signal relays
ConnNext ==
    \/ \E e \in Ends, res \in {"ok", "noAgent", "noHandler"} : Open(e, res) /\ UNCHANGED <<mgmtVars, engineVars, pathVars, soloVars>>
    \/ \E e \in Ends, ok \in BOOLEAN : sendOffer(e, ok) /\ UNCHANGED <<mgmtVars, engineVars, pathVars, soloVars>>
    \/ \E e \in Ends : OnRemoteOffer(e) /\ UNCHANGED <<mgmtVars, engineVars, pathVars, soloVars>>
    \/ \E e \in Ends, ok \in BOOLEAN : sendAnswer(e, ok) /\ UNCHANGED <<mgmtVars, engineVars, pathVars, soloVars>>
    \/ \E e \in Ends : OnRemoteAnswer(e) /\ UNCHANGED <<mgmtVars, engineVars, pathVars, soloVars>>
    \/ \E e \in Ends : Timeout(e) /\ UNCHANGED <<mgmtVars, engineVars, pathVars, soloVars>>
    \/ \E e \in Ends : Close(e) /\ UNCHANGED <<mgmtVars, engineVars, pathVars, soloVars>>
    \/ \E e \in Ends : setConnecting(e) /\ UNCHANGED <<mgmtVars, engineVars, pathVars, soloVars>>
    \/ \E e \in Ends, ok \in BOOLEAN : GatherCandidates(e, ok) /\ UNCHANGED <<mgmtVars, engineVars, pathVars, soloVars>>
    \/ \E e \in Ends : DialOrAccept(e) /\ UNCHANGED <<mgmtVars, engineVars, pathVars, soloVars>>
    \/ \E e \in Ends, ok \in BOOLEAN : Connected(e, ok) /\ UNCHANGED <<mgmtVars, engineVars, pathVars, soloVars>>
    \/ \E e \in Ends, pairOK \in BOOLEAN, pair \in ConnPairs, startOK \in BOOLEAN :
          startProxy(e, pairOK, pair, startOK) /\ UNCHANGED <<mgmtVars, engineVars, pathVars, soloVars>>
    \/ \E e \in Ends : onICEConnectionStateChange(e) /\ UNCHANGED <<mgmtVars, engineVars, pathVars, soloVars>>
    \/ \E e \in Ends : Disconnected(e) /\ UNCHANGED <<mgmtVars, engineVars, pathVars, soloVars>>
    \/ \E e \in Ends, agentOK \in BOOLEAN, proxyOK \in BOOLEAN :
          cleanup(e, agentOK, proxyOK) /\ UNCHANGED <<mgmtVars, engineVars, pathVars, soloVars>>

\* either end may hold the greater key
ConnPairInit ==
    /\ MgmtInit /\ EngineInit
    /\ \E k1 \in {<<1>>, <<2>>}, k2 \in {<<1>>, <<2>>} : k1 # k2 /\ ConnInitWith(k1, k2)

ConnSpec == ConnPairInit /\ [][ConnNext]_vars

\* the timer of Open's first select (time.After) fires unless Open has left the select
TimerFires == \A e \in Ends : WF_vars(Timeout(e) /\ UNCHANGED <<mgmtVars, engineVars, pathVars, soloVars>>)

\* the two Conns of a pair with the timers of their Opens running
ConnTimerSpec == ConnPairInit /\ [][ConnNext]_vars /\ TimerFires

\* two peers with any two distinct public keys open their Conns and exchange offer and
\* answer up to the election of the controlling side; no call fails
ElectionNext ==
    \/ \E e \in Ends : Open(e, "ok") /\ UNCHANGED <<mgmtVars, engineVars, pathVars, soloVars>>
    \/ \E e \in Ends : sendOffer(e, TRUE) /\ UNCHANGED <<mgmtVars, engineVars, pathVars, soloVars>>
    \/ \E e \in Ends : OnRemoteOffer(e) /\ UNCHANGED <<mgmtVars, engineVars, pathVars, soloVars>>
    \/ \E e \in Ends : sendAnswer(e, TRUE) /\ UNCHANGED <<mgmtVars, engineVars, pathVars, soloVars>>
    \/ \E e \in Ends : OnRemoteAnswer(e) /\ UNCHANGED <<mgmtVars, engineVars, pathVars, soloVars>>
    \/ \E e \in Ends : setConnecting(e) /\ UNCHANGED <<mgmtVars, engineVars, pathVars, soloVars>>
    \/ \E e \in Ends : GatherCandidates(e, TRUE) /\ UNCHANGED <<mgmtVars, engineVars, pathVars, soloVars>>
    \/ \E e \in Ends : DialOrAccept(e) /\ UNCHANGED <<mgmtVars, engineVars, pathVars, soloVars>>

ElectionInit == MgmtInit /\ EngineInit /\ ConnInit

ElectionSpec == ElectionInit /\ [][ElectionNext]_vars

(***************************************************************************)
(* Properties of the Client Engine                                         *)
(***************************************************************************)

\* C1: the serials the Engine commits as last-applied form a strictly increasing
\* sequence, whatever the order in which the maps arrive
C1_CommittedIncreasing ==
    \A i \in 1..Len(committed), j \in 1..Len(committed) :
        i < j => committed[i] < committed[j]

\* maps were applied out of order: a stale one was dropped between two applied ones
C1_Witness ==
    /\ Len(committed) >= 2
    /\ inMap.serial < networkSerial
    /\ networkSerial = committed[Len(committed)]

\* C7: updateNetworkMap with a map whose serial is at most the last-applied serial
\* (an equal serial included) leaves the last-applied serial and the PeerConns as
\* they were
C7_StaleIsNoOp ==
    (inMap # NoMap /\ inMap.serial <= before.serial) =>
        /\ networkSerial = before.serial
        /\ peerConns = before.peers

\* a map with the last-applied serial and other peers was ignored
C7_Witness ==
    /\ inMap # NoMap
    /\ inMap.serial = before.serial
    /\ inMap.peers # before.peers
    /\ before.peers # {}
    /\ peerConns = before.peers

\* C8: after updateNetworkMap applied a map with a serial greater than the
\* last-applied one, the keys of the PeerConns are exactly the remote peers of the map
\* and the last-applied serial is the serial of the map
C8_AppliedMap ==
    (inMap # NoMap /\ inMap.serial > before.serial) =>
        /\ peerConns = inMap.peers
        /\ networkSerial = inMap.serial

\* a map was applied that removed one PeerConn, kept one and created one
C8_Witness ==
    /\ inMap.serial > before.serial
    /\ before.peers \ inMap.peers # {}
    /\ inMap.peers \ before.peers # {}
    /\ peerConns = inMap.peers

\* C9: a map with a greater serial, no remote peers and RemotePeersIsEmpty set removes
\* every PeerConn and its serial becomes the last-applied one
C9_EmptyMapRemovesAll ==
    (/\ inMap # NoMap
     /\ inMap.serial > before.serial
     /\ inMap.peers = {}
     /\ inMap.empty) =>
        /\ peerConns = {}
        /\ networkSerial = inMap.serial

\* the PeerConns of two peers were removed by an empty map
C9_Witness ==
    /\ inMap.empty
    /\ inMap.serial > before.serial
    /\ Cardinality(before.peers) >= 2
    /\ peerConns = {}

(***************************************************************************)
(* Properties of peer.Conn                                                 *)
(***************************************************************************)

\* C5: a Conn never has the direct endpoint and the proxy splice active together,
\* and while its status is Connected exactly one of the two is active
C5_OneDataPath ==
    \A e \in Ends :
        /\ Cardinality(active[e]) <= 1
        /\ status[e] = StatusConnected => Cardinality(active[e]) = 1

\* both ends are Connected, one over the direct endpoint and one over the splice
C5_Witness ==
    /\ status[1] = StatusConnected /\ active[1] = {"direct"}
    /\ status[2] = StatusConnected /\ active[2] = {"proxy"}

\* C6: of the two ends of a pair with distinct public keys exactly one computes
\* itself as controlling: when both have connected their agents, one called Dial and
\* the other one Accept
C6_OneController ==
    /\ isControlling(1) # isControlling(2)
    /\ \A e \in Ends :
        role[e] # "none" => role[e] = (IF isControlling(e) THEN "Dial" ELSE "Accept")
    /\ (role[1] # "none" /\ role[2] # "none") => {role[1], role[2]} = {"Dial", "Accept"}

\* both ends have connected their agents, their keys share the first character
C6_Witness ==
    /\ role[1] # "none" /\ role[2] # "none"
    /\ Head(localKey[1]) = Head(localKey[2])

(***************************************************************************)
(* Properties of the update fan-out                                        *)
(***************************************************************************)

\* C11: the updates enqueued to the mailbox of a peer are sent on its Sync stream in
\* exactly the order in which they were enqueued: every update the stream sends is the
\* one enqueued next after the update it sent before
C11_DeliveredInOrder ==
    [][\A s \in Streams :
          streams'[s].got # streams[s].got => streams'[s].got = streams[s].got + 1]_vars

\* a stream has sent two updates that were waiting in its mailbox together
C11_Witness ==
    \E s \in Streams : streams[s].got >= 2 /\ streams[s].depth >= 2

(***************************************************************************)
(* Properties of the account serial                                        *)
(***************************************************************************)

\* the number of peers ever registered
Registrations == registrations["default-key"] + registrations["one-off-key"]

\* C12 (as claimed): when two peers that were not registered log in concurrently with
\* the same reusable setup key, both are registered and the serial of the account is
\* exactly two greater than before: with both Logins in progress past AddPeer and no
\* other mutation made, the serial has grown by the number of registrations
C12_ConcurrentLogins ==
    \A r1 \in LoginRecords, r2 \in LoginRecords :
        (/\ r1.key # r2.key
         /\ r1.sk = r2.sk
         /\ r1.sk \in SetupKeyIds
         /\ setupKeys[r1.sk].type = SetupKeyReusable
         /\ r1.pc \in {"netmap", "notify"}
         /\ r2.pc \in {"netmap", "notify"}
         /\ deletes = 0)
        => /\ accPeers[r1.key].present
           /\ accPeers[r2.key].present
           /\ serial = Registrations

\* C13 (as claimed): when a peer is deleted from an account, the update its stream
\* receives has remote_peers_is_empty set, and the update every remaining peer receives
\* lists exactly the other remaining peers and carries a serial higher than the serial
\* of the account before the deletion. Stated on the step of DeletePeer, for every
\* channel that accepts an update in that step.
C13_DeletionFanOut ==
    [][\A k \in PeerKeys :
          (accPeers[k].present /\ ~accPeers'[k].present) =>
             \A c \in Streams :
                chans'[c].enq = chans[c].enq + 1 =>
                   LET update == chans'[c].buf[Len(chans'[c].buf)].Update
                   IN IF peerChannels[k] = c
                      THEN update.empty
                      ELSE \E p \in Registered \ {k} :
                              /\ peerChannels[p] = c
                              /\ update.peers = Registered \ {k, p}
                              /\ update.serial > serial]_vars

C15_SerialAdvances ==
    [][/\ serial' >= serial
       /\ (Registered' # Registered \/ groups' # groups) => serial' > serial]_vars

(***************************************************************************)
(* Properties of the setup keys                                            *)
(***************************************************************************)

C18_CloseEndsOpen ==
    \A e \in Ends :
        closeAsked[e] =>
            /\ pc[e] \in {"cleanup", "returned"}
            /\ openErr[e] = "ConnectionClosed"
            /\ pc[e] = "returned" => status[e] = StatusDisconnected

\* C19 (as claimed): when the ICE state of a Connected Conn changes to Failed or
\* Disconnected, its context is cancelled, Open returns ConnectionDisconnected and the
\* status becomes Disconnected: an Open that waits Connected with its context cancelled
\* by the callback ends with ConnectionDisconnected and in no other way, and when it has
\* returned with that error the status is Disconnected
C19_DisconnectEndsOpen ==
    [][\A e \in Ends :
          /\ (pc[e] = "connected" /\ ctxDone[e] /\ pc'[e] # pc[e]) =>
                (pc'[e] = "cleanup" /\ openErr'[e] = "ConnectionDisconnected")
          /\ (pc[e] = "cleanup" /\ openErr[e] = "ConnectionDisconnected"
              /\ pc'[e] = "returned") =>
                status'[e] = StatusDisconnected]_vars

\* C20: an Open that has sent its offer and waits for the remote credentials leaves
\* the wait only with credentials accepted (a remote offer or a remote answer), with
\* ConnectionClosed after a Close that was accepted, or with ConnectionTimeout: with no
\* credentials and no close it ends with ConnectionTimeout. The status is Disconnected
\* once Open has ended with ConnectionTimeout, and the wait always ends: Open never
\* waits beyond the timeout.
C20_TimeoutEndsOpen ==
    /\ [][\A e \in Ends :
            (pc[e] = "wait" /\ pc'[e] # "wait") =>
               \/ pc'[e] \in {"answer", "creds"}
               \/ pc'[e] = "cleanup" /\ openErr'[e] = "ConnectionClosed" /\ closeRes'[e] = "OK"
               \/ pc'[e] = "cleanup" /\ openErr'[e] = "ConnectionTimeout"]_vars
    /\ [](\A e \in Ends : openErr[e] = "ConnectionTimeout" => status[e] = StatusDisconnected)
    /\ \A e \in Ends : (pc[e] = "wait") ~> (pc[e] # "wait")

\* an Open has ended with ConnectionTimeout, no Close was called on its Conn
C20_Witness ==
    \E e \in Ends :
        /\ pc[e] = "returned"
        /\ openErr[e] = "ConnectionTimeout"
        /\ closeRes[e] = ""
        /\ status[e] = StatusDisconnected

\* C21 (as claimed): whenever Open has returned, for any reason, cleanup has left the
\* Conn with status Disconnected, no ICE agent, no proxy, no active data path and its
\* disconnect notifier cancelled and unset
C21_CleanAfterOpen ==
    \A e \in Ends :
        pc[e] = "returned" =>
            /\ status[e] = StatusDisconnected
            /\ agent[e] = "nil"
            /\ proxy[e] = "nil"
            /\ active[e] = {}
            /\ ~notify[e]

\* C22 (as claimed): Open moves the status of a Disconnected Conn to Connecting as
\* part of starting the attempt: while Open waits for the remote offer, the remote
\* answer, the timeout or a close, the status is Connecting
C22_ConnectingWhileWaiting ==
    \A e \in Ends : pc[e] = "wait" => status[e] = StatusConnecting

(***************************************************************************)
(* The choice of the data path as a function of the selected pair          *)
(***************************************************************************)
\* ICE has selected a pair, whatever its candidates are
PathInit ==
    /\ MgmtInit /\ EngineInit
    /\ localKey = <<(<<1>>), (<<2>>)>>
    /\ pc = [e \in Ends |-> "proxy"]
    /\ status = [e \in Ends |-> StatusConnecting]
    /\ agent = [e \in Ends |-> "open"]
    /\ proxy = [e \in Ends |-> "nil"]
    /\ active = [e \in Ends |-> {}]
    /\ notify = [e \in Ends |-> TRUE]
    /\ ctxDone = [e \in Ends |-> FALSE]
    /\ role = [e \in Ends |-> IF isControlling(e) THEN "Dial" ELSE "Accept"]
    /\ openErr = [e \in Ends |-> ""]
    /\ closeRes = [e \in Ends |-> ""]
    /\ closeAsked = [e \in Ends |-> FALSE]
    /\ statusRecorder = [e \in Ends |-> AddedPeer]
    /\ accepted = NoHandOver
    /\ offers = {}
    /\ answers = {}
    /\ selected \in CandidatePairs
    /\ decided = "unset"
    /\ SoloIdle

\* useProxy := shouldUseProxy(pair), and the proxy made for it
choosePath ==
    /\ decided = "unset"
    /\ decided' = NewProxy(shouldUseProxy(selected))
    /\ UNCHANGED <<mgmtVars, engineVars, connVars, selected, soloVars>>

PathNext == choosePath

PathSpec == PathInit /\ [][PathNext]_vars

\* C23: once ICE has selected a pair the path is the proxy if either candidate
\* is a relay; otherwise it is direct if the remote candidate is a host with a
\* public address, or the local candidate is a host with a public address, or
\* both candidates are hosts with private addresses (an address that is not
\* public: private, loopback or link-local); it is the proxy in every other case
C23_PathChoice ==
    decided # "unset" =>
        LET relay == selected.localType = "relay" \/ selected.remoteType = "relay"
            remoteHostPublic == selected.remoteType = "host" /\ selected.remoteAddr = "public"
            localHostPublic == selected.localType = "host" /\ selected.localAddr = "public"
            hostsPrivate == /\ selected.localType = "host" /\ selected.remoteType = "host"
                            /\ selected.localAddr # "public" /\ selected.remoteAddr # "public"
        IN  Path(decided) =
                IF relay THEN "proxy"
                ELSE IF remoteHostPublic \/ localHostPublic \/ hostsPrivate THEN "direct"
                ELSE "proxy"

\* two hosts of one private network were given the direct path
C23_Witness ==
    /\ selected.localType = "host" /\ selected.remoteType = "host"
    /\ selected.localAddr = "private" /\ selected.remoteAddr = "private"
    /\ decided = "NoProxy"

(***************************************************************************)
(* The path and the recorded state of a connection, for every pair ICE may *)
(* select                                                                  *)
(***************************************************************************)
\* the two Conns connect without a failing call up to startProxy, which is given any
\* pair and may fail; then the connection ends and cleanup runs
ProxyNext ==
    \/ \E e \in Ends : Open(e, "ok") /\ UNCHANGED <<mgmtVars, engineVars, pathVars, soloVars>>
    \/ \E e \in Ends : sendOffer(e, TRUE) /\ UNCHANGED <<mgmtVars, engineVars, pathVars, soloVars>>
    \/ \E e \in Ends : OnRemoteOffer(e) /\ UNCHANGED <<mgmtVars, engineVars, pathVars, soloVars>>
    \/ \E e \in Ends : sendAnswer(e, TRUE) /\ UNCHANGED <<mgmtVars, engineVars, pathVars, soloVars>>
    \/ \E e \in Ends : OnRemoteAnswer(e) /\ UNCHANGED <<mgmtVars, engineVars, pathVars, soloVars>>
    \/ \E e \in Ends : setConnecting(e) /\ UNCHANGED <<mgmtVars, engineVars, pathVars, soloVars>>
    \/ \E e \in Ends : GatherCandidates(e, TRUE) /\ UNCHANGED <<mgmtVars, engineVars, pathVars, soloVars>>
    \/ \E e \in Ends : DialOrAccept(e) /\ UNCHANGED <<mgmtVars, engineVars, pathVars, soloVars>>
    \/ \E e \in Ends : Connected(e, TRUE) /\ UNCHANGED <<mgmtVars, engineVars, pathVars, soloVars>>
    \/ \E e \in Ends, pairOK \in BOOLEAN, pair \in CandidatePairs, startOK \in BOOLEAN :
          startProxy(e, pairOK, pair, startOK) /\ UNCHANGED <<mgmtVars, engineVars, pathVars, soloVars>>
    \/ \E e \in Ends : onICEConnectionStateChange(e) /\ UNCHANGED <<mgmtVars, engineVars, pathVars, soloVars>>
    \/ \E e \in Ends : Disconnected(e) /\ UNCHANGED <<mgmtVars, engineVars, pathVars, soloVars>>
    \/ \E e \in Ends, agentOK \in BOOLEAN, proxyOK \in BOOLEAN :
          cleanup(e, agentOK, proxyOK) /\ UNCHANGED <<mgmtVars, engineVars, pathVars, soloVars>>

ProxySpec == Init /\ [][ProxyNext]_vars

\* the candidate types the recorder holds name a relay
RelayRecorded(e) ==
    \/ statusRecorder[e].LocalIceCandidateType = "relay"
    \/ statusRecorder[e].RemoteIceCandidateType = "relay"

\* C24: when ICE has completed with a pair in which either candidate is a relay and
\* the connection is up, the Conn runs the proxy path and the state the recorder
\* shows for the peer is Connected with Relayed true and Direct false
C24_RelayedThroughProxy ==
    \A e \in Ends : pc[e] = "connected" /\ RelayRecorded(e) =>
        /\ proxy[e] = "WireguardProxy"
        /\ active[e] = {"proxy"}
        /\ statusRecorder[e].ConnStatus = StatusConnected
        /\ statusRecorder[e].Relayed
        /\ ~statusRecorder[e].Direct

\* both Conns are connected over the relay candidate of the first: it is the local
\* candidate of the one and the remote candidate of the other
C24_Witness ==
    /\ pc[1] = "connected" /\ pc[2] = "connected"
    /\ statusRecorder[1].LocalIceCandidateType = "relay"
    /\ statusRecorder[1].RemoteIceCandidateType = "host"
    /\ statusRecorder[2].LocalIceCandidateType = "host"
    /\ statusRecorder[2].RemoteIceCandidateType = "relay"
    /\ statusRecorder[1].Relayed /\ statusRecorder[2].Relayed
    /\ active[1] = {"proxy"} /\ active[2] = {"proxy"}

\* the state of a Conn and of its Open call
ConnState(e) ==
    <<pc[e], status[e], agent[e], proxy[e], active[e], notify[e], ctxDone[e], role[e],
      openErr[e], statusRecorder[e]>>

\* C25: OnRemoteOffer and OnRemoteAnswer return at once: the message is handed to
\* Open, and reported as accepted, exactly when Open waits for it at that moment;
\* otherwise the call reports it as not accepted, the Conn is left as it was and
\* the message is gone, not kept for a later Open
C25_HandOverOrDiscard ==
    [][\A e \in Ends :
        /\ (e \in offers /\ e \notin offers') =>
              /\ accepted' = [conn |-> e, message |-> "offer", ok |-> pc[e] = "wait"]
              /\ IF pc[e] = "wait"
                 THEN pc'[e] = "answer"
                 ELSE ConnState(e)' = ConnState(e)
        /\ (e \in answers /\ e \notin answers') =>
              /\ accepted' = [conn |-> e, message |-> "answer", ok |-> pc[e] = "wait"]
              /\ IF pc[e] = "wait"
                 THEN pc'[e] = "creds"
                 ELSE ConnState(e)' = ConnState(e)
        /\ (pc[e] = "wait" /\ pc'[e] \in {"answer", "creds"}) =>
              \/ e \in offers /\ e \notin offers' /\ pc'[e] = "answer"
              \/ e \in answers /\ e \notin answers' /\ pc'[e] = "creds"]_vars

\* an offer was discarded by a Conn whose Open was not waiting, and that Open waits
\* now with no message left for it
C25_Witness ==
    /\ accepted = [conn |-> 1, message |-> "offer", ok |-> FALSE]
    /\ pc[1] = "wait"
    /\ 1 \notin offers /\ 1 \notin answers
    /\ pc[2] = "wait"

\* the Open of this Conn fails in this step, its ICE connection is lost, or its
\* cleanup runs
Fails(e) ==
    \/ pc[e] # "cleanup" /\ pc'[e] = "cleanup"
    \/ ~ctxDone[e] /\ ctxDone'[e]
    \/ pc[e] = "cleanup" /\ pc'[e] = "returned"

DisplaceNext ==
    \/ \E k \in PeerKeys : LoginStart(k, "default-key", 1) /\ UNCHANGED clientVars
    \/ \E r \in LoginRecords : LoginUpdateMeta(r) /\ UNCHANGED clientVars
    \/ \E r \in LoginRecords : AddPeer(r) /\ UNCHANGED clientVars
    \/ \E r \in LoginRecords : LoginGetNetworkMap(r) /\ UNCHANGED clientVars
    \/ \E r \in LoginRecords, p \in PeerKeys : LoginNotify(r, p) /\ UNCHANGED clientVars
    \/ \E r \in LoginRecords : LoginFinish(r) /\ UNCHANGED clientVars
    \/ \E r \in LoginRecords : LoginReturn(r) /\ UNCHANGED clientVars
    \/ \E s \in Streams, k \in PeerKeys : SyncStart(s, k) /\ UNCHANGED clientVars
    \/ \E s \in Streams : sendInitialSync(s, TRUE) /\ UNCHANGED clientVars
    \/ \E s \in Streams : CreateChannel(s) /\ UNCHANGED clientVars
    \/ \E s \in Streams : SyncMarkConnected(s) /\ UNCHANGED clientVars
    \/ \E s \in Streams : SyncDeliver(s, TRUE) /\ UNCHANGED clientVars
    \/ \E s \in Streams : SyncChannelClosed(s) /\ UNCHANGED clientVars
    \/ \E s \in Streams : SyncContextDone(s) /\ UNCHANGED clientVars
    \/ \E s \in Streams : SyncMarkDisconnected(s) /\ UNCHANGED clientVars

DisplaceSpec == Init /\ [][DisplaceNext]_vars

\* the stream has created its mailbox and runs; the mailbox is open
OpenMailbox(s) == streams[s].pc \in {"mark", "loop"} /\ ~chans[s].closed

\* C27: an open mailbox is the one registered for its key, so a key has at most one
\* and the mailbox of a displaced stream is closed; an update is enqueued only in the
\* registered mailbox, the one created last for the key, never in a displaced one
C27_OneMailboxPerKey ==
    [][\A s \in Streams :
          /\ OpenMailbox(s)' => peerChannels'[streams'[s].key] = s
          /\ chans'[s].enq > chans[s].enq =>
                /\ peerChannels[streams[s].key] = s
                /\ \A other \in Streams \ {s} :
                      streams[other].key = streams[s].key => ~OpenMailbox(other)]_vars

\* a second stream of one key displaced the first, which has ended, and received an
\* update that was sent afterwards
C27_Witness ==
    \E s \in Streams, other \in Streams :
        /\ s # other /\ streams[s].key = streams[other].key
        /\ streams[other].pc = "done" /\ streams[other].err = "" /\ chans[other].closed
        /\ streams[s].pc = "loop" /\ ~chans[s].closed /\ streams[s].got >= 1

(***************************************************************************)
(* Senders of updates and a peer whose mailbox fills up                    *)
(***************************************************************************)
\* an account in use: the first peer is registered and connected, and its Sync stream
\* waits for updates; the calls are counted from here
MailboxInit ==
    /\ accPeers = [p \in PeerKeys |->
                     IF p = 1 THEN [ip |-> 1, connected |-> TRUE, present |-> TRUE] ELSE NoPeer]
    /\ setupKeys = [k \in SetupKeyIds |->
                      [type |-> IF k = "one-off-key" THEN SetupKeyOneOff ELSE SetupKeyReusable,
                       revoked |-> FALSE, expired |-> FALSE,
                       usedTimes |-> IF k = "default-key" THEN 1 ELSE 0]]
    /\ serial = 0
    /\ groups = NoGroup
    /\ peerChannels = [p \in PeerKeys |-> IF p = 1 THEN 1 ELSE 0]
    /\ chans = [c \in Streams |-> [buf |-> <<>>, closed |-> FALSE, enq |-> 0]]
    /\ streams = [s \in Streams |->
                    IF s = 1
                    THEN [IdleStream EXCEPT !.pc = "loop", !.key = 1,
                                            !.first = [serial |-> 0, peers |-> {}, empty |-> TRUE],
                                            !.snap = {1}, !.maxSerial = 0]
                    ELSE IdleStream]
    /\ logins = EmptyBag
    /\ deletes = 0
    /\ lastDelete = NoDelete
    /\ registrations = [k \in SetupKeyIds |-> IF k = "default-key" THEN 1 ELSE 0]
    /\ loginCalls = 0
    /\ EngineInit
    /\ ConnInitWith(<<1>>, <<2>>)

\* Logins and account mutations send updates to the peers; the stream delivers them,
\* fails or is cancelled; no other stream is opened
MailboxNext ==
    \/ \E k \in PeerKeys : LoginStart(k, "default-key", 1) /\ UNCHANGED clientVars
    \/ \E r \in LoginRecords : LoginUpdateMeta(r) /\ UNCHANGED clientVars
    \/ \E r \in LoginRecords : AddPeer(r) /\ UNCHANGED clientVars
    \/ \E r \in LoginRecords : LoginGetNetworkMap(r) /\ UNCHANGED clientVars
    \/ \E r \in LoginRecords, p \in PeerKeys : LoginNotify(r, p) /\ UNCHANGED clientVars
    \/ \E r \in LoginRecords : LoginFinish(r) /\ UNCHANGED clientVars
    \/ \E r \in LoginRecords : LoginReturn(r) /\ UNCHANGED clientVars
    \/ \E s \in Streams, sendOK \in BOOLEAN : SyncDeliver(s, sendOK) /\ UNCHANGED clientVars
    \/ \E s \in Streams : SyncChannelClosed(s) /\ UNCHANGED clientVars
    \/ \E s \in Streams : SyncContextDone(s) /\ UNCHANGED clientVars
    \/ \E s \in Streams : SyncMarkDisconnected(s) /\ UNCHANGED clientVars
    \/ \E k \in PeerKeys : DeletePeer(k) /\ UNCHANGED clientVars
    \/ \E members \in {PeerKeys} : SaveGroup(members) /\ UNCHANGED clientVars

MailboxSpec == MailboxInit /\ [][MailboxNext]_vars

\* the channel of the peer is full
Full(peerKey) ==
    /\ peerChannels[peerKey] # 0
    /\ Len(chans[peerChannels[peerKey]].buf) = MaxMailbox

LiveStream(s, peerKey) ==
    streams[s].key = peerKey /\ streams[s].pc \in {"initial", "create", "mark", "loop", "closing"}

\* C29: when the Sync stream of a peer has closed, for whatever reason, the peer is
\* marked disconnected: a peer that is marked connected has a Sync call that runs
C29_ConnectedHasStream ==
    \A k \in PeerKeys :
        accPeers[k].present /\ accPeers[k].connected => \E s \in Streams : LiveStream(s, k)

\* C30: a Login of a peer that is not registered, with neither a setup key nor an
\* identity token, ends at once with InvalidArgument and registers no peer
C30_NoCredentials ==
    [][loginCalls' = loginCalls + 1 =>
          \A r \in BagToSet(logins') :
              (/\ CopiesIn(r, logins') > CopiesIn(r, logins)
               /\ r.sk = ""
               /\ ~accPeers[r.key].present)
              => /\ r.pc = "done"
                 /\ r.res = "InvalidArgument"
                 /\ accPeers' = accPeers]_vars

\* C31: a Login of a peer that is not registered, with a setup key that is the key of
\* no account, ends with PermissionDenied and registers no peer
C31_UnknownSetupKey ==
    [][\A r \in BagToSet(logins) :
          (/\ r.pc = "register"
           /\ r.sk \notin SetupKeyIds
           /\ CopiesIn(r, logins') < CopiesIn(r, logins))
          => /\ [r EXCEPT !.pc = "done", !.res = "PermissionDenied"] \in BagToSet(logins')
             /\ accPeers' = accPeers]_vars

(***************************************************************************)
(* The lookup of a setup key by its spelling                               *)
(***************************************************************************)
MaxSetupKeyLen == 2

\* the characters of a setup key: letters in both cases, and a digit
KeyChars == {"a", "A", "b", "B", "1"}

\* strings.ToLower and strings.ToUpper on one character
LowerOf(c) == CASE c = "A" -> "a" [] c = "B" -> "b" [] OTHER -> c
UpperOf(c) == CASE c = "a" -> "A" [] c = "b" -> "B" [] OTHER -> c

ToLower(str) == [i \in 1..Len(str) |-> LowerOf(str[i])]
ToUpper(str) == [i \in 1..Len(str) |-> UpperOf(str[i])]

\* the setup keys, as strings that are not empty
SetupKeyStrings == UNION {[1..n -> KeyChars] : n \in 1..MaxSetupKeyLen}

\* the index restore and AddAccount build: the lower-cased ids of the setup keys
SetupKeyId2AccountId == {ToLower(storedKey)}

\* the ids account.SetupKeys is keyed by: the ids as they are stored
AccountSetupKeys == {storedKey}

\* FileStore.AddPeer: the index, then the account's own map, both by the lower-cased key
FileStoreAddPeerResult(setupKey) ==
    IF ToLower(setupKey) \notin SetupKeyId2AccountId THEN "NotFound"
    ELSE IF ToLower(setupKey) \notin AccountSetupKeys THEN "Internal"
    ELSE "ok"

\* Store.GetAccountBySetupKey: the account the lower-cased index holds for the key
GetAccountBySetupKey(setupKey) == ToLower(setupKey) \in SetupKeyId2AccountId

\* getAccountSetupKeyByKey: the setup key of the account whose Key is exactly key
getAccountSetupKeyByKey(key) == key \in AccountSetupKeys

\* AccountManager.AddPeer, up to the setup key it resolves
AddPeerResult(setupKey) ==
    LET upperKey == ToUpper(setupKey)
    IN  IF ~GetAccountBySetupKey(upperKey) THEN "NotFound"
        ELSE IF ~getAccountSetupKeyByKey(upperKey) THEN "NotFound"
        ELSE "ok"

\* an account stores a setup key and a peer presents one
KeyLookupInit ==
    /\ MgmtInit /\ EngineInit /\ ConnStart(<<1>>, <<2>>)
    /\ RetryStart /\ DnsStart /\ GroupStart
    /\ storedKey \in SetupKeyStrings
    /\ presentedKey \in SetupKeyStrings
    /\ lookup = {}

\* Server.RegisterPeer registers the peer through FileStore.AddPeer
FileStoreAddPeer ==
    /\ "FileStore" \notin {l.by : l \in lookup}
    /\ lookup' = lookup \cup {[by |-> "FileStore", res |-> FileStoreAddPeerResult(presentedKey)]}
    /\ UNCHANGED <<notKeyVars, storedKey, presentedKey>>

\* Login registers the peer through AccountManager.AddPeer
AccountManagerAddPeer ==
    /\ "AccountManager" \notin {l.by : l \in lookup}
    /\ lookup' = lookup \cup {[by |-> "AccountManager", res |-> AddPeerResult(presentedKey)]}
    /\ UNCHANGED <<notKeyVars, storedKey, presentedKey>>

KeyLookupNext == FileStoreAddPeer \/ AccountManagerAddPeer

KeyLookupSpec == KeyLookupInit /\ [][KeyLookupNext]_vars

\* C32: a presented setup key that differs from the stored one in letter case only
\* resolves to the stored key, in the store and in the account manager
C32_CaseInsensitiveLookup ==
    ToLower(presentedKey) = ToLower(storedKey) => \A l \in lookup : l.res = "ok"

(***************************************************************************)
(* Client.Sync: the retries of the Sync stream                             *)
(***************************************************************************)
MaxRetries == 6

\* getRandomValueFromInterval with the default randomization factor 0.5: a value
\* between half of the interval and one and a half of it
RandomizedIntervals(cur) == {cur - cur \div 2, cur, cur + cur \div 2}

\* incrementCurrentInterval with the default multiplier 1.5
incrementCurrentInterval(cur) ==
    IF 3 * cur >= 2 * MaxInterval THEN MaxInterval ELSE (3 * cur) \div 2

\* NextBackOff under the MaxElapsedTime of Login: the retries end
NextBackOffOfLogin(next) ==
    IF LoginMaxElapsedTime # 0 /\ elapsed + next > LoginMaxElapsedTime THEN Stop ELSE next

\* ExponentialBackOff.NextBackOff, for the randomized value it drew
NextBackOff(next) ==
    IF MaxElapsedTime # 0 /\ elapsed + next > MaxElapsedTime THEN Stop ELSE next

\* operation has returned an error: Retry asks for the next interval and waits,
\* or returns the error when the interval is Stop
RetryAfterError(next) ==
    /\ retries < MaxRetries
    /\ retries' = retries + 1
    /\ interval' = incrementCurrentInterval(interval)
    /\ IF NextBackOff(next) = Stop
       THEN syncPc' = "stopped" /\ wait' = wait
       ELSE syncPc' = "backoff" /\ wait' = NextBackOff(next)
    /\ UNCHANGED <<elapsed, syncCancelled>>

\* GetServerPublicKey or connectToStream fails: operation returns the error
operationFails ==
    /\ syncPc = "op"
    /\ \E next \in RandomizedIntervals(interval) : RetryAfterError(next)
    /\ UNCHANGED notRetryVars

\* the stream is open: operation is in receiveEvents; no call succeeds on a
\* cancelled context
connectToStream ==
    /\ syncPc = "op"
    /\ ~syncCancelled
    /\ syncPc' = "stream"
    /\ UNCHANGED <<interval, wait, elapsed, retries, syncCancelled>>
    /\ UNCHANGED notRetryVars

\* receiveEvents returns: Recv fails (EOF, a broken or cancelled stream), the
\* message does not decrypt, or msgHandler fails.  It has no other return.
receiveEvents ==
    /\ syncPc = "stream"
    /\ \E next \in RandomizedIntervals(interval) : RetryAfterError(next)
    /\ UNCHANGED notRetryVars

\* the timer of Retry fires: operation runs again
timerFires ==
    /\ syncPc = "backoff"
    /\ syncPc' = "op"
    /\ elapsed' = elapsed + wait
    /\ UNCHANGED <<interval, wait, retries, syncCancelled>>
    /\ UNCHANGED notRetryVars

\* the context of the client is cancelled
cancelSync ==
    /\ ~syncCancelled
    /\ syncCancelled' = TRUE
    /\ UNCHANGED <<syncPc, interval, wait, elapsed, retries>>
    /\ UNCHANGED notRetryVars

RetryNext == operationFails \/ connectToStream \/ receiveEvents \/ timerFires \/ cancelSync

RetrySpec == Init /\ [][RetryNext]_vars

RECURSIVE Pow(_, _)
Pow(b, n) == IF n = 0 THEN 1 ELSE b * Pow(b, n - 1)

\* C33: the Sync loop stops only if its context is cancelled; after the n-th error
\* the interval is 0.8 s times 1.5^n, capped at 3 s; and a retry follows every error
C33_SyncNeverGivesUp ==
    /\ syncPc = "stopped" => syncCancelled
    /\ interval = IF (800 * Pow(3, retries)) \div Pow(2, retries) > 3000
                  THEN 3000 ELSE (800 * Pow(3, retries)) \div Pow(2, retries)
    /\ syncPc = "backoff" => ENABLED timerFires

\* the loop is about to reconnect at the capped interval after a stream broke,
\* and once more after the context was cancelled
C33_Witness ==
    /\ syncPc = "backoff"
    /\ interval = 3000
    /\ retries = MaxRetries
    /\ syncCancelled

\* C34: no mutation is lost between the initial snapshot of a Sync stream and the
\* creation of its mailbox: when the mailbox has just been created and no registration
\* is still notifying, the stream has sent, or holds in its mailbox, a map with the
\* serial of the account
C34_NoLostWindow ==
    \A s \in Streams :
        (/\ streams[s].pc = "mark"
         /\ peerChannels[streams[s].key] = s
         /\ accPeers[streams[s].key].present
         /\ logins = EmptyBag)
        => \/ streams[s].maxSerial >= serial
           \/ \E i \in 1..Len(chans[s].buf) : chans[s].buf[i].Update.serial >= serial

\* C35: while the second Sync stream of a peer, which displaced the first, is open,
\* no step of the first stream closes the mailbox of the second or marks the peer
\* disconnected
C35_DisplacedStreamEndsAlone ==
    [][\A old \in Streams, new \in Streams :
          (/\ old # new
           /\ streams[old].key = streams[new].key
           /\ streams[old].pc \in {"mark", "loop", "closing"} /\ chans[old].closed
           /\ OpenMailbox(new) /\ peerChannels[streams[new].key] = new
           /\ streams'[old] # streams[old])
          => /\ OpenMailbox(new)'
             /\ accPeers[streams[new].key].connected => accPeers'[streams[new].key].connected]_vars

\* C36: a Close issued before Open has started still prevents that Conn from
\* connecting later: once Close has returned for a Conn that was not opened, the
\* Conn is never opened, so a Conn the Engine has removed cannot live next to the
\* one it creates for the same key afterwards
C36_CloseBeforeOpenHolds ==
    [][\A e \in Ends :
          (pc[e] = "new" /\ closeRes[e] = "AlreadyClosed") => pc'[e] = "new"]_vars

\* C37: a Login of a public key that is registered takes the registered branch
\* whatever credentials it carries, and neither its start nor its return creates a
\* peer, changes the tunnel IP of one, or raises the usage count of a setup key
C37_RegisteredLoginRegistersNothing ==
    [][/\ \A r \in BagToSet(logins') :
             (/\ CopiesIn(r, logins') > CopiesIn(r, logins)
              /\ loginCalls' = loginCalls + 1
              /\ accPeers[r.key].present)
             => /\ r.pc = "meta"
                /\ accPeers' = accPeers /\ setupKeys' = setupKeys
                /\ registrations' = registrations
       /\ \A r \in BagToSet(logins) :
             (r.pc = "meta" /\ CopiesIn(r, logins') < CopiesIn(r, logins))
             => /\ accPeers' = accPeers /\ setupKeys' = setupKeys
                /\ registrations' = registrations
                /\ [r EXCEPT !.pc = "done", !.res = "OK"] \in BagToSet(logins')
                   \/ ~accPeers[r.key].present]_vars

\* a registered peer has logged in again with the one-off key it was registered
\* with: the Login returned OK and the key still counts one use
C37_Witness ==
    \E r \in BagToSet(logins) :
        /\ r.pc = "done" /\ r.res = "OK" /\ r.late /\ r.sk = "one-off-key"
        /\ r.todo = {}
        /\ accPeers[r.key].present
        /\ setupKeys["one-off-key"].usedTimes = 1
        /\ Cardinality(Registered) = 1

(***************************************************************************)
(* DefaultServer.UpdateDNSServer                                           *)
(***************************************************************************)
MaxDnsSerial == 2

\* the configurations the management service sends
DnsConfigs == {"zones-a", "zones-b"}

\* hashstructure.Hash of a configuration
Hash(update) == IF update = "zones-a" THEN 11 ELSE 12

\* UpdateDNSServer up to s.mux.Lock(): the context and the serial are looked at
\* before the lock is taken
UpdateDNSServer(c, newSerial, update) ==
    /\ dnsCalls[c].pc = "idle"
    /\ \A other \in DnsCalls : other < c => dnsCalls[other].pc # "idle"
    /\ dnsCalls' = [dnsCalls EXCEPT ![c] =
          IF dnsCtxDone
          THEN [pc |-> "done", serial |-> newSerial, update |-> update, res |-> "ctxErr"]
          ELSE IF newSerial < updateSerial
          THEN [pc |-> "done", serial |-> newSerial, update |-> update, res |-> "behind"]
          ELSE [pc |-> "lock", serial |-> newSerial, update |-> update, res |-> ""]]
    /\ UNCHANGED <<updateSerial, previousConfigHash, currentConfig, dnsCtxDone>>
    /\ UNCHANGED notDnsVars

\* UpdateDNSServer from s.mux.Lock() to its return, under the lock: a configuration
\* with the hash of the previous one is not applied again; applyOK is the outcome of
\* applyConfiguration
applyUpdate(c, applyOK) ==
    /\ dnsCalls[c].pc = "lock"
    /\ LET newSerial == dnsCalls[c].serial
           update == dnsCalls[c].update
       IN  IF previousConfigHash = Hash(update)
           THEN /\ updateSerial' = newSerial
                /\ dnsCalls' = [dnsCalls EXCEPT ![c].pc = "done", ![c].res = "ok"]
                /\ UNCHANGED <<previousConfigHash, currentConfig>>
           ELSE IF ~applyOK
           THEN /\ dnsCalls' = [dnsCalls EXCEPT ![c].pc = "done", ![c].res = "applyErr"]
                /\ UNCHANGED <<updateSerial, previousConfigHash, currentConfig>>
           ELSE /\ currentConfig' = update
                /\ updateSerial' = newSerial
                /\ previousConfigHash' = Hash(update)
                /\ dnsCalls' = [dnsCalls EXCEPT ![c].pc = "done", ![c].res = "ok"]
    /\ UNCHANGED dnsCtxDone
    /\ UNCHANGED notDnsVars

\* DefaultServer.Stop cancels the context of the server
stopDns ==
    /\ ~dnsCtxDone
    /\ dnsCtxDone' = TRUE
    /\ UNCHANGED <<updateSerial, previousConfigHash, currentConfig, dnsCalls>>
    /\ UNCHANGED notDnsVars

DnsNext ==
    \/ \E c \in DnsCalls, newSerial \in 0..MaxDnsSerial, update \in DnsConfigs :
          UpdateDNSServer(c, newSerial, update)
    \/ \E c \in DnsCalls, applyOK \in BOOLEAN : applyUpdate(c, applyOK)
    \/ stopDns

DnsSpec == Init /\ [][DnsNext]_vars

\* C38: in every interleaving of UpdateDNSServer calls the last-applied serial never
\* decreases, and a call whose serial is lower than the last-applied serial changes
\* neither the applied configuration nor the serial
C38_SerialNeverDecreases ==
    [][/\ updateSerial' >= updateSerial
       /\ \A c \in DnsCalls :
             (dnsCalls'[c] # dnsCalls[c] /\ dnsCalls'[c].serial < updateSerial)
             => currentConfig' = currentConfig /\ updateSerial' = updateSerial]_vars

(***************************************************************************)
(* GroupAddPeer and GroupDeletePeer                                        *)
(***************************************************************************)
MaxGroupCalls == 4

\* DefaultAccountManager.GroupAddPeer, the whole call under the lock of the manager:
\* the peer is appended unless the group has it, the serial is incremented, the
\* account is saved (saveOK) and then the peers are sent their maps
GroupAddPeer(peerKey, saveOK) ==
    /\ groupCalls < MaxGroupCalls
    /\ groupCalls' = groupCalls + 1
    /\ groupPeers' = groupPeers \cup {peerKey}
    /\ accountSerial' = IncSerial(accountSerial)
    /\ IF saveOK
       THEN /\ savedAccount' = [serial |-> accountSerial', peers |-> groupPeers']
            /\ sentSerials' = sentSerials \cup {accountSerial'}
       ELSE UNCHANGED <<savedAccount, sentSerials>>
    /\ UNCHANGED notGroupVars

\* DefaultAccountManager.GroupDeletePeer, the whole call under the lock of the
\* manager: the serial is incremented; the account is saved inside the loop, when the
\* peer is found in the group and removed; then the peers are sent their maps
GroupDeletePeer(peerKey, saveOK) ==
    /\ groupCalls < MaxGroupCalls
    /\ groupCalls' = groupCalls + 1
    /\ accountSerial' = IncSerial(accountSerial)
    /\ IF peerKey \in groupPeers
       THEN /\ groupPeers' = groupPeers \ {peerKey}
            /\ IF saveOK
               THEN /\ savedAccount' = [serial |-> accountSerial', peers |-> groupPeers']
                    /\ sentSerials' = sentSerials \cup {accountSerial'}
               ELSE UNCHANGED <<savedAccount, sentSerials>>
       ELSE /\ groupPeers' = groupPeers
            /\ savedAccount' = savedAccount
            /\ sentSerials' = sentSerials \cup {accountSerial'}
    /\ UNCHANGED notGroupVars

GroupNext ==
    \/ \E peerKey \in PeerKeys, saveOK \in BOOLEAN : GroupAddPeer(peerKey, saveOK)
    \/ \E peerKey \in PeerKeys, saveOK \in BOOLEAN : GroupDeletePeer(peerKey, saveOK)

GroupSpec == Init /\ [][GroupNext]_vars

\* C39: the serial of every NetworkMap that was sent has been saved with the account
\* before the map was sent, also when GroupDeletePeer names a peer that is not in
\* the group
C39_SentSerialIsSaved ==
    \A n \in sentSerials : n <= savedAccount.serial

(***************************************************************************)
(* ICE state changes that reach a Conn without a disconnect notifier       *)
(***************************************************************************)
\* Conn.onICEConnectionStateChange with Failed or Disconnected while
\* conn.notifyDisconnected is nil: the agent exists or existed, and Open has not set
\* the notifier yet or cleanup has reset it. The handler calls the notifier without
\* a test, and the call of a nil function panics.
onICEConnectionStateChangeUnset(e) ==
    /\ pc[e] \in {"offer", "wait", "answer", "creds", "returned"}
    /\ ~notify[e]
    /\ pc' = [pc EXCEPT ![e] = "panic"]
    /\ UNCHANGED <<localKey, accepted, statusRecorder, status, agent, proxy, active, notify,
                   ctxDone, role, openErr, closeRes, closeAsked, offers, answers>>

\* the two Conns connect and disconnect, and the agent reports a state change at any time
IceNext ==
    \/ \E e \in Ends : Open(e, "ok") /\ UNCHANGED <<mgmtVars, engineVars, pathVars, soloVars>>
    \/ \E e \in Ends : sendOffer(e, TRUE) /\ UNCHANGED <<mgmtVars, engineVars, pathVars, soloVars>>
    \/ \E e \in Ends : OnRemoteOffer(e) /\ UNCHANGED <<mgmtVars, engineVars, pathVars, soloVars>>
    \/ \E e \in Ends : sendAnswer(e, TRUE) /\ UNCHANGED <<mgmtVars, engineVars, pathVars, soloVars>>
    \/ \E e \in Ends : OnRemoteAnswer(e) /\ UNCHANGED <<mgmtVars, engineVars, pathVars, soloVars>>
    \/ \E e \in Ends : Close(e) /\ UNCHANGED <<mgmtVars, engineVars, pathVars, soloVars>>
    \/ \E e \in Ends : setConnecting(e) /\ UNCHANGED <<mgmtVars, engineVars, pathVars, soloVars>>
    \/ \E e \in Ends : GatherCandidates(e, TRUE) /\ UNCHANGED <<mgmtVars, engineVars, pathVars, soloVars>>
    \/ \E e \in Ends : DialOrAccept(e) /\ UNCHANGED <<mgmtVars, engineVars, pathVars, soloVars>>
    \/ \E e \in Ends : Connected(e, TRUE) /\ UNCHANGED <<mgmtVars, engineVars, pathVars, soloVars>>
    \/ \E e \in Ends, pair \in ConnPairs :
          startProxy(e, TRUE, pair, TRUE) /\ UNCHANGED <<mgmtVars, engineVars, pathVars, soloVars>>
    \/ \E e \in Ends : onICEConnectionStateChange(e) /\ UNCHANGED <<mgmtVars, engineVars, pathVars, soloVars>>
    \/ \E e \in Ends : onICEConnectionStateChangeUnset(e) /\ UNCHANGED <<mgmtVars, engineVars, pathVars, soloVars>>
    \/ \E e \in Ends : Disconnected(e) /\ UNCHANGED <<mgmtVars, engineVars, pathVars, soloVars>>
    \/ \E e \in Ends, agentOK \in BOOLEAN, proxyOK \in BOOLEAN :
          cleanup(e, agentOK, proxyOK) /\ UNCHANGED <<mgmtVars, engineVars, pathVars, soloVars>>

IceSpec == Init /\ [][IceNext]_vars

\* C40: an ICE state change to Failed or Disconnected that reaches a Conn before it
\* has the remote credentials, or after cleanup, never calls a notifier that is not
\* set: no Conn panics
C40_StaleIceEventIsHarmless ==
    \A e \in Ends : pc[e] # "panic"

====
